---- MODULE Spec2Model ----
(***************************************************************************)
(* A model of src/OS/kernel.c: the cooperative task system (task table,    *)
(* round-robin schedule, create/kill), the text-mode display it shares     *)
(* (text area, heartbeat overlay bands, HUD), the keyboard poller, the     *)
(* line editor and the shell.                                              *)
(*                                                                         *)
(* Scheduling is cooperative and interrupts are off (kmain: cli), so the   *)
(* code of a task between two of its yield() calls runs without any other  *)
(* task running.  An action of the task-level specifications is therefore  *)
(* one such run: from the point where a task is switched in to its next    *)
(* call of yield(), that call of schedule() included.                      *)
(*                                                                         *)
(* C strings are sequences of character codes (without the terminating     *)
(* NUL); a null char pointer is the empty sequence (the program has no      *)
(* empty string literal).  A framebuffer cell holds the 16-bit vga_entry.  *)
(***************************************************************************)
EXTENDS Integers, Sequences, FiniteSets, TLC

\* ------------------------------------------------------------ constants

MAX_TASKS == 8
HB_COL == 60
HB0_ROW_BASE == 0
HB1_ROW_BASE == 4
HB_MAX_LINES == 4
STACK_SIZE == 4096
VGA_WIDTH == 80
VGA_HEIGHT == 25
TERM_HEIGHT == VGA_HEIGHT - 1
INPUT_MAX == 128
term_color == 15

TASK_DEAD == "DEAD"
TASK_READY == "READY"
TASK_RUNNING == "RUNNING"
TASK_BLOCKED == "BLOCKED"

\* function pointers
NULL_FN == "null"
FN_shell == "task_shell"
FN_heartbeat0 == "task_heartbeat0"
FN_heartbeat1 == "task_heartbeat1"

\* the null char pointer
NULL_STR == << >>

Slots == 0 .. (MAX_TASKS - 1)

\* ------------------------------------------------------ string literals

\* "> "
S_prompt == <<62, 32>>
\* "You're welcome!\n"
S_welcome == <<89, 111, 117, 39, 114, 101, 32, 119, 101, 108, 99, 111, 109, 101, 33, 10>>
\* "Shutting down...\n"
S_shutting == <<83, 104, 117, 116, 116, 105, 110, 103, 32, 100, 111, 119, 110, 46, 46, 46, 10>>
\* "ID STATE NAME\n"
S_ps_header == <<73, 68, 32, 83, 84, 65, 84, 69, 32, 78, 65, 77, 69, 10>>
\* "  "
S_sp2 == <<32, 32>>
\* "     "
S_sp5 == <<32, 32, 32, 32, 32>>
\* "?"
S_qmark == <<63>>
\* "Killed task.\n"
S_killed == <<75, 105, 108, 108, 101, 100, 32, 116, 97, 115, 107, 46, 10>>
\* "Usage: kill <id>\n"
S_usage == <<85, 115, 97, 103, 101, 58, 32, 107, 105, 108, 108, 32, 60, 105, 100, 62, 10>>
\* "Spawned hb0.\n"
S_spawned0 == <<83, 112, 97, 119, 110, 101, 100, 32, 104, 98, 48, 46, 10>>
\* "Spawned hb1.\n"
S_spawned1 == <<83, 112, 97, 119, 110, 101, 100, 32, 104, 98, 49, 46, 10>>
\* "No free task slots.\n"
S_noslots == <<78, 111, 32, 102, 114, 101, 101, 32, 116, 97, 115, 107, 32, 115, 108, 111, 116, 115, 46, 10>>
\* "(yield)\n"
S_yield_msg == <<40, 121, 105, 101, 108, 100, 41, 10>>
\* "Unknown command. Try: clear, ps, spawn hb0, spawn hb1, kill <id>\n"
S_unknown == <<85, 110, 107, 110, 111, 119, 110, 32, 99, 111, 109, 109, 97, 110, 100, 46, 32, 84, 114, 121, 58, 32, 99, 108, 101, 97, 114, 44, 32, 112, 115, 44, 32, 115, 112, 97, 119, 110, 32, 104, 98, 48, 44, 32, 115, 112, 97, 119, 110, 32, 104, 98, 49, 44, 32, 107, 105, 108, 108, 32, 60, 105, 100, 62, 10>>
\* "Tasks"
S_Tasks == <<84, 97, 115, 107, 115>>
\* "HB0 #"
S_HB0 == <<72, 66, 48, 32, 35>>
\* "HB1 #"
S_HB1 == <<72, 66, 49, 32, 35>>
\* " : "
S_colon == <<32, 58, 32>>
\* "Hello World!\n"
S_hello == <<72, 101, 108, 108, 111, 32, 87, 111, 114, 108, 100, 33, 10>>
\* "Current kernel features:\n"
S_features == <<67, 117, 114, 114, 101, 110, 116, 32, 107, 101, 114, 110, 101, 108, 32, 102, 101, 97, 116, 117, 114, 101, 115, 58, 10>>
\* " - Echo user input\n - Shut down system\n - Tasking/Scheduling\n\n"
S_feature_list == <<32, 45, 32, 69, 99, 104, 111, 32, 117, 115, 101, 114, 32, 105, 110, 112, 117, 116, 10, 32, 45, 32, 83, 104, 117, 116, 32, 100, 111, 119, 110, 32, 115, 121, 115, 116, 101, 109, 10, 32, 45, 32, 84, 97, 115, 107, 105, 110, 103, 47, 83, 99, 104, 101, 100, 117, 108, 105, 110, 103, 10, 10>>
\* "Kernel starting tasks...\n"
S_starting == <<75, 101, 114, 110, 101, 108, 32, 115, 116, 97, 114, 116, 105, 110, 103, 32, 116, 97, 115, 107, 115, 46, 46, 46, 10>>
\* "shell"
N_shell == <<115, 104, 101, 108, 108>>
\* "heartbeat0"
N_heartbeat0 == <<104, 101, 97, 114, 116, 98, 101, 97, 116, 48>>
\* "heartbeat1"
N_heartbeat1 == <<104, 101, 97, 114, 116, 98, 101, 97, 116, 49>>
\* "thanks"
L_thanks == <<116, 104, 97, 110, 107, 115>>
\* "exit"
L_exit == <<101, 120, 105, 116>>
\* "clear"
L_clear == <<99, 108, 101, 97, 114>>
\* "ps"
L_ps == <<112, 115>>
\* "kill "
L_kill_ == <<107, 105, 108, 108, 32>>
\* "spawn hb0"
L_spawn_hb0 == <<115, 112, 97, 119, 110, 32, 104, 98, 48>>
\* "spawn hb1"
L_spawn_hb1 == <<115, 112, 97, 119, 110, 32, 104, 98, 49>>
\* "yield"
L_yield == <<121, 105, 101, 108, 100>>

\* s[i] of a C string, i counted from 0: the terminating NUL at its end
CharAt(s, i) == IF i < Len(s) THEN s[i + 1] ELSE 0

RECURSIVE streq_from(_, _, _)
streq_from(a, b, i) ==
    IF CharAt(a, i) # 0 /\ CharAt(b, i) # 0
    THEN IF CharAt(a, i) # CharAt(b, i) THEN FALSE ELSE streq_from(a, b, i + 1)
    ELSE CharAt(a, i) = 0 /\ CharAt(b, i) = 0

streq(a, b) == streq_from(a, b, 0)

starts_with(s, prefix) == \A i \in 0 .. (Len(prefix) - 1) : CharAt(s, i) = prefix[i + 1]

\* -------------------------------------------------------------- display
\* The machine state m is a record; its fields are the program's globals:
\*   vga (VGA_MEMORY), term_row, term_col, hw_cursor (the CRTC cursor
\*   position), tasks, task_count, current_task, hud_dirty, ports (the outw
\*   writes so far).
\* vga is the sequence of the VGA_HEIGHT rows, a row the sequence of its
\* VGA_WIDTH entries: VGA_MEMORY[row * VGA_WIDTH + col] is vga[row + 1][col + 1].

vga_entry(c) == c + term_color * 256

BLANK == vga_entry(32)

\* n times the value x
RECURSIVE Fill(_, _)
Fill(n, x) ==
    IF n <= 0 THEN << >>
    ELSE IF n = 1 THEN <<x>>
    ELSE LET half == Fill(n \div 2, x)
         IN  IF n % 2 = 0 THEN half \o half ELSE Append(half \o half, x)

BlankRow == Fill(VGA_WIDTH, BLANK)

\* A value is evaluated where this is asked of it, and the value of an
\* operator's argument is computed once: the folds below are evaluated one
\* step after the other, and a value used several times is handed on as an
\* argument.
Evaluated(x) == DOMAIN x # {}

\* VGA_MEMORY[idx] = v; an index past the framebuffer is not modelled
vga_store(vga, idx, v) ==
    IF idx < VGA_WIDTH * VGA_HEIGHT
    THEN [vga EXCEPT ![(idx \div VGA_WIDTH) + 1][(idx % VGA_WIDTH) + 1] = v]
    ELSE vga

\* the cells col .. VGA_WIDTH - 1 of a row set to spaces
row_blank_from(vga, row, col) ==
    IF col >= VGA_WIDTH THEN vga
    ELSE [vga EXCEPT ![row + 1] = SubSeq(vga[row + 1], 1, col) \o Fill(VGA_WIDTH - col, BLANK)]

vga_cursor_set_pos(m, row, col) ==
    LET r == IF row >= VGA_HEIGHT THEN VGA_HEIGHT - 1 ELSE row
        c == IF col >= VGA_WIDTH THEN VGA_WIDTH - 1 ELSE col
    IN  [m EXCEPT !.hw_cursor = r * VGA_WIDTH + c]

terminal_clear(m) ==
    [m EXCEPT !.vga = Fill(VGA_HEIGHT, BlankRow), !.term_row = 0, !.term_col = 0]

terminal_clear_row(vga, row) == [vga EXCEPT ![row + 1] = BlankRow]

terminal_clear_text_area(m) ==
    [m EXCEPT !.vga = Fill(TERM_HEIGHT, BlankRow) \o SubSeq(m.vga, TERM_HEIGHT + 1, VGA_HEIGHT),
              !.term_row = 0, !.term_col = 0]

terminal_putc_at(vga, row, col, c) ==
    IF row >= VGA_HEIGHT \/ col >= VGA_WIDTH THEN vga
    ELSE [vga EXCEPT ![row + 1][col + 1] = vga_entry(c)]

RECURSIVE terminal_write_at_from(_, _, _, _, _)
terminal_write_at_from(vga, row, col, s, i) ==
    IF CharAt(s, i) # 0 /\ (col + i) < VGA_WIDTH /\ Evaluated(vga)
    THEN terminal_write_at_from(terminal_putc_at(vga, row, col + i, CharAt(s, i)),
                                row, col, s, i + 1)
    ELSE vga

terminal_write_at(vga, row, col, s) == terminal_write_at_from(vga, row, col, s, 0)

overlay_clear_line(vga, row) ==
    IF row >= VGA_HEIGHT THEN vga ELSE row_blank_from(vga, row, HB_COL)

\* rows 1 .. TERM_HEIGHT - 1 move up by one, row TERM_HEIGHT - 1 is cleared
terminal_scroll_up(vga) ==
    SubSeq(vga, 2, TERM_HEIGHT) \o <<BlankRow>> \o SubSeq(vga, TERM_HEIGHT + 1, VGA_HEIGHT)

\* vga_cursor_set_pos(term_row, term_col)
cursor_to_term(m) == vga_cursor_set_pos(m, m.term_row, m.term_col)

\* a newline that wraps to row 0 at the bottom of the text area
terminal_newline_wrap(m) ==
    cursor_to_term(
        [m EXCEPT !.vga = row_blank_from(m.vga, m.term_row, m.term_col),
                  !.term_col = 0,
                  !.term_row = IF m.term_row + 1 >= TERM_HEIGHT THEN 0 ELSE m.term_row + 1])

terminal_newline(m) ==
    cursor_to_term(
        IF m.term_row + 1 >= TERM_HEIGHT
        THEN [m EXCEPT !.vga = terminal_scroll_up(row_blank_from(m.vga, m.term_row, m.term_col)),
                       !.term_col = 0, !.term_row = TERM_HEIGHT - 1]
        ELSE [m EXCEPT !.vga = row_blank_from(m.vga, m.term_row, m.term_col),
                       !.term_col = 0, !.term_row = m.term_row + 1])

terminal_putc(m, c) ==
    IF c = 10 THEN terminal_newline(m)
    ELSE LET wrap(m1) == IF m1.term_col >= VGA_WIDTH THEN terminal_newline(m1) ELSE m1
         IN  cursor_to_term(
                 wrap([m EXCEPT !.vga = vga_store(m.vga, m.term_row * VGA_WIDTH + m.term_col,
                                                  vga_entry(c)),
                                !.term_col = m.term_col + 1]))

\* terminal_putc of s[lo], ..., s[hi] in this order (the range is halved to
\* keep the evaluation shallow)
RECURSIVE terminal_write_range(_, _, _, _)
terminal_write_range(m, s, lo, hi) ==
    IF lo > hi \/ ~Evaluated(m) THEN m
    ELSE IF lo = hi THEN terminal_putc(m, CharAt(s, lo))
    ELSE terminal_write_range(terminal_write_range(m, s, lo, (lo + hi) \div 2),
                              s, ((lo + hi) \div 2) + 1, hi)

terminal_write(m, s) == terminal_write_range(m, s, 0, Len(s) - 1)

\* -------------------------------------------------------------- tasking

\* &stacks[0][0]: fixed by the linker, 16-byte aligned
STACKS_ADDR == 256 * STACK_SIZE

\* &stacks[id][STACK_SIZE]
stack_top(id) == STACKS_ADDR + (id + 1) * STACK_SIZE

\* the frame ctx_switch pops: eight registers, eflags, the return address
CTX_FRAME == 4 * 10

\* The stack a task has in use when it calls ctx_switch, below its stack top
\* and above the frame ctx_switch pushes: one return address for each call
\* on the path from task_trampoline to ctx_switch, the two arguments of
\* ctx_switch, and for the shell its line buffer.  (Spills and padding are
\* the compiler's; they only make these larger.)
yield_depth(site) ==
    CASE site = "read_line"  -> 4 * 5 + 8 + INPUT_MAX
      [] site = "loop_end"   -> 4 * 4 + 8 + INPUT_MAX
      [] site = "cmd_yield"  -> 4 * 4 + 8 + INPUT_MAX
      [] site = "hb0_delay"  -> 4 * 5 + 8 + 4
      [] site = "hb1_delay"  -> 4 * 5 + 8 + 4
      [] site = "task_exit"  -> 4 * 4 + 8
      [] OTHER               -> 0

\* what ctx_switch writes to *old_esp for a task that yields at `site`
saved_esp(id, site) == stack_top(id) - yield_depth(site) - CTX_FRAME

DeadTask == [esp |-> 0, state |-> TASK_DEAD, name |-> NULL_STR, entry |-> NULL_FN]

debug_hud_mark_dirty(m) == [m EXCEPT !.hud_dirty = 1]

state_char(s) ==
    CASE s = TASK_READY   -> 82
      [] s = TASK_RUNNING -> 42
      [] s = TASK_BLOCKED -> 66
      [] s = TASK_DEAD    -> 68
      [] OTHER            -> 63

\* an allocation of the highest DEAD slot
task_alloc_slot_highest(tasks) ==
    IF \E i \in Slots : tasks[i].state = TASK_DEAD
    THEN CHOOSE i \in Slots : /\ tasks[i].state = TASK_DEAD
                              /\ \A j \in Slots : tasks[j].state = TASK_DEAD => j <= i
    ELSE -1

\* an allocation that gives the last slot when no slot is DEAD
task_alloc_slot_last(tasks) ==
    IF \E i \in Slots : tasks[i].state = TASK_DEAD
    THEN CHOOSE i \in Slots : /\ tasks[i].state = TASK_DEAD
                              /\ \A j \in Slots : tasks[j].state = TASK_DEAD => i <= j
    ELSE MAX_TASKS - 1

task_alloc_slot(tasks) ==
    IF \E i \in Slots : tasks[i].state = TASK_DEAD
    THEN CHOOSE i \in Slots : /\ tasks[i].state = TASK_DEAD
                              /\ \A j \in Slots : tasks[j].state = TASK_DEAD => i <= j
    ELSE -1

\* an index that counts every task in a slot below my_id, whatever its name
hb_instance_index_any(tasks, hb_name, my_id) ==
    Cardinality({i \in Slots : i < my_id /\ tasks[i].state # TASK_DEAD})

RECURSIVE hb_instance_index_from(_, _, _, _, _)
hb_instance_index_from(tasks, hb_name, my_id, i, idx) ==
    IF i >= MAX_TASKS THEN -1
    ELSE IF tasks[i].state = TASK_DEAD THEN hb_instance_index_from(tasks, hb_name, my_id, i + 1, idx)
    ELSE IF tasks[i].name = NULL_STR THEN hb_instance_index_from(tasks, hb_name, my_id, i + 1, idx)
    ELSE IF ~streq(tasks[i].name, hb_name) THEN hb_instance_index_from(tasks, hb_name, my_id, i + 1, idx)
    ELSE IF i = my_id THEN idx
    ELSE hb_instance_index_from(tasks, hb_name, my_id, i + 1, idx + 1)

hb_instance_index(tasks, hb_name, my_id) == hb_instance_index_from(tasks, hb_name, my_id, 0, 0)

hud_w == 26
hud_h == 6
hud_start_col == VGA_WIDTH - hud_w
hud_start_row == VGA_HEIGHT - hud_h

\* one HUD line for task i on row hud_start_row + line
hud_task_line(vga, tasks, i, line) ==
    LET r  == hud_start_row + line
        v1 == terminal_putc_at(vga, r, hud_start_col + 0, 35)
        v2 == terminal_putc_at(v1, r, hud_start_col + 1, 48 + (i % 10))
        v3 == terminal_putc_at(v2, r, hud_start_col + 2, 32)
        v4 == terminal_putc_at(v3, r, hud_start_col + 3, state_char(tasks[i].state))
        v5 == terminal_putc_at(v4, r, hud_start_col + 4, 32)
        nm == IF tasks[i].name # NULL_STR THEN tasks[i].name ELSE S_qmark
    IN  terminal_write_at(v5, r, hud_start_col + 5, nm)

RECURSIVE hud_task_lines(_, _, _, _)
hud_task_lines(vga, tasks, i, line) ==
    IF i < MAX_TASKS /\ line < hud_h /\ Evaluated(vga)
    THEN IF tasks[i].state = TASK_DEAD THEN hud_task_lines(vga, tasks, i + 1, line)
         ELSE hud_task_lines(hud_task_line(vga, tasks, i, line), tasks, i + 1, line + 1)
    ELSE vga

\* the rows r .. hud_h - 1 of the HUD rectangle set to spaces
RECURSIVE hud_clear_from(_, _)
hud_clear_from(vga, r) ==
    IF r < hud_h /\ Evaluated(vga)
    THEN hud_clear_from(row_blank_from(vga, hud_start_row + r, hud_start_col), r + 1)
    ELSE vga

debug_hud_draw(m) ==
    IF m.hud_dirty = 0 THEN m
    ELSE LET cleared == hud_clear_from(m.vga, 0)
             titled == terminal_write_at(cleared, hud_start_row + 0, hud_start_col, S_Tasks)
         IN  [m EXCEPT !.hud_dirty = 0,
                       !.vga = hud_task_lines(titled, m.tasks, 0, 1)]

RECURSIVE overlays_clear_from(_, _)
overlays_clear_from(vga, r) ==
    IF r < HB1_ROW_BASE + HB_MAX_LINES /\ Evaluated(vga) THEN overlays_clear_from(overlay_clear_line(vga, r), r + 1)
    ELSE vga

overlays_redraw(m) ==
    debug_hud_draw(debug_hud_mark_dirty([m EXCEPT !.vga = overlays_clear_from(m.vga, 0)]))

\* the overlay row task_kill clears for a task named hb_name, or the vga unchanged
kill_clear_overlay(vga, tasks, id, hb_name, row_base) ==
    IF tasks[id].name # NULL_STR /\ streq(tasks[id].name, hb_name)
    THEN LET clear(idx) == IF idx >= 0 /\ idx < HB_MAX_LINES
                           THEN overlay_clear_line(vga, row_base + idx)
                           ELSE vga
         IN  clear(hb_instance_index(tasks, hb_name, id))
    ELSE vga

\* a task_kill that only marks the slot DEAD
task_kill_state_only(m, id) ==
    IF id < 0 \/ id >= MAX_TASKS THEN [m |-> m, ret |-> 0]
    ELSE IF m.tasks[id].state = TASK_DEAD THEN [m |-> m, ret |-> 0]
    ELSE IF id = m.current_task THEN [m |-> m, ret |-> 0]
    ELSE [m |-> debug_hud_mark_dirty(
                   [m EXCEPT !.vga = kill_clear_overlay(
                                         kill_clear_overlay(m.vga, m.tasks, id, N_heartbeat0,
                                                            HB0_ROW_BASE),
                                         m.tasks, id, N_heartbeat1, HB1_ROW_BASE),
                             !.tasks[id].state = TASK_DEAD]),
          ret |-> 1]

\* a task_kill that leaves the saved stack pointer in the slot
task_kill_keep_esp(m, id) ==
    IF id < 0 \/ id >= MAX_TASKS THEN [m |-> m, ret |-> 0]
    ELSE IF m.tasks[id].state = TASK_DEAD THEN [m |-> m, ret |-> 0]
    ELSE IF id = m.current_task THEN [m |-> m, ret |-> 0]
    ELSE [m |-> debug_hud_mark_dirty(
                   [m EXCEPT !.vga = kill_clear_overlay(
                                         kill_clear_overlay(m.vga, m.tasks, id, N_heartbeat0,
                                                            HB0_ROW_BASE),
                                         m.tasks, id, N_heartbeat1, HB1_ROW_BASE),
                             !.tasks[id] = [DeadTask EXCEPT !.esp = m.tasks[id].esp]]),
          ret |-> 1]

\* a task_kill without the check of id against current_task
task_kill_current(m, id) ==
    IF id < 0 \/ id >= MAX_TASKS THEN [m |-> m, ret |-> 0]
    ELSE IF m.tasks[id].state = TASK_DEAD THEN [m |-> m, ret |-> 0]
    ELSE [m |-> debug_hud_mark_dirty(
                   [m EXCEPT !.vga = kill_clear_overlay(
                                         kill_clear_overlay(m.vga, m.tasks, id, N_heartbeat0,
                                                            HB0_ROW_BASE),
                                         m.tasks, id, N_heartbeat1, HB1_ROW_BASE),
                             !.tasks[id] = DeadTask]),
          ret |-> 1]

\* task_kill(id): the state after the call and the value it returns
task_kill(m, id) ==
    IF id < 0 \/ id >= MAX_TASKS THEN [m |-> m, ret |-> 0]
    ELSE IF m.tasks[id].state = TASK_DEAD THEN [m |-> m, ret |-> 0]
    ELSE IF id = m.current_task THEN [m |-> m, ret |-> 0]
    ELSE [m |-> debug_hud_mark_dirty(
                   [m EXCEPT !.vga = kill_clear_overlay(
                                         kill_clear_overlay(m.vga, m.tasks, id, N_heartbeat0,
                                                            HB0_ROW_BASE),
                                         m.tasks, id, N_heartbeat1, HB1_ROW_BASE),
                             !.tasks[id] = DeadTask]),
          ret |-> 1]

\* task_create(entry, name): the state after the call and the value it returns
task_create(m, entry, name) ==
    LET at(id) ==
            IF id < 0 THEN [m |-> m, ret |-> -1]
            ELSE [m |-> debug_hud_mark_dirty(
                           [m EXCEPT !.tasks[id] = [esp |-> stack_top(id) - CTX_FRAME,
                                                    state |-> TASK_READY,
                                                    name |-> name,
                                                    entry |-> entry],
                                     !.task_count = IF id + 1 > m.task_count THEN id + 1
                                                    ELSE m.task_count]),
                  ret |-> id]
    IN  at(task_alloc_slot(m.tasks))

\* a search for the next task that starts at slot 0 whatever prev is
schedule_next_lowest(tasks, prev, step) ==
    IF \E i \in Slots : tasks[i].state = TASK_READY
    THEN CHOOSE i \in Slots : /\ tasks[i].state = TASK_READY
                              /\ \A j \in Slots : tasks[j].state = TASK_READY => i <= j
    ELSE -1

\* the first READY slot after prev in the order prev+1, prev+2, ... (mod MAX_TASKS)
RECURSIVE schedule_next(_, _, _)
schedule_next(tasks, prev, step) ==
    IF step > MAX_TASKS THEN -1
    ELSE IF tasks[(prev + step) % MAX_TASKS].state = TASK_READY THEN (prev + step) % MAX_TASKS
    ELSE schedule_next(tasks, prev, step + 1)

\* a schedule that leaves the state of the task that called it as it is
schedule_demote_none(tasks, prev) == tasks

\* the table after schedule marked the task that called it READY
schedule_demote(tasks, prev) ==
    IF prev >= 0 /\ tasks[prev].state = TASK_RUNNING
    THEN [tasks EXCEPT ![prev].state = TASK_READY]
    ELSE tasks

\* schedule(), called by the task running at `site` (by kmain when no task runs)
schedule(m, site) ==
    LET switch(prev, m1) ==
            IF prev = -1 THEN m1
            ELSE IF prev # m1.current_task
            THEN [m1 EXCEPT !.tasks[prev].esp = saved_esp(prev, site)]
            ELSE m1
        pick(prev, t1, next) ==
            IF next = -1
            THEN IF prev >= 0 /\ t1[prev].state # TASK_DEAD
                 THEN debug_hud_draw([m EXCEPT !.tasks = [t1 EXCEPT ![prev].state = TASK_RUNNING]])
                 ELSE debug_hud_draw([m EXCEPT !.tasks = t1])
            ELSE switch(prev, debug_hud_draw(
                                  [m EXCEPT !.tasks = [t1 EXCEPT ![next].state = TASK_RUNNING],
                                            !.current_task = next]))
        ready(prev, t1) == pick(prev, t1, schedule_next(t1, prev, 1))
    IN  ready(m.current_task, schedule_demote(m.tasks, m.current_task))

\* ------------------------------------------------------------- keyboard

\* scancode_to_ascii[0 .. 57]; the entries 58 .. 127 are 0
scancode_to_ascii_head == <<0, 27, 49, 50, 51, 52, 53, 54, 55, 56, 57, 48, 45, 61, 8, 9, 113, 119, 101, 114, 116, 121, 117, 105, 111, 112, 91, 93, 10, 0, 97, 115, 100, 102, 103, 104, 106, 107, 108, 59, 39, 96, 0, 92, 122, 120, 99, 118, 98, 110, 109, 44, 46, 47, 0, 42, 0, 32>>

\* scancode_to_ascii_shift[0 .. 57]; the entries 58 .. 127 are 0
scancode_to_ascii_shift_head == <<0, 27, 33, 64, 35, 36, 37, 94, 38, 42, 40, 41, 95, 43, 8, 9, 81, 87, 69, 82, 84, 89, 85, 73, 79, 80, 123, 125, 10, 0, 65, 83, 68, 70, 71, 72, 74, 75, 76, 58, 34, 126, 0, 124, 90, 88, 67, 86, 66, 78, 77, 60, 62, 63, 0, 42, 0, 32>>

scancode_to_ascii(code) ==
    IF code < Len(scancode_to_ascii_head) THEN scancode_to_ascii_head[code + 1] ELSE 0

scancode_to_ascii_shift(code) ==
    IF code < Len(scancode_to_ascii_shift_head) THEN scancode_to_ascii_shift_head[code + 1] ELSE 0

KEY_NONE == "KEY_NONE"
KEY_CHAR == "KEY_CHAR"
KEY_ENTER == "KEY_ENTER"
KEY_BACKSPACE == "KEY_BACKSPACE"
KEY_LEFT == "KEY_LEFT"
KEY_RIGHT == "KEY_RIGHT"
KEY_DELETE == "KEY_DELETE"

\* a key event; ch is meaningful for KEY_CHAR only
Key(type, ch) == [type |-> type, ch |-> ch]

NoKey(e0v, shiftv) == [e0 |-> e0v, shift_down |-> shiftv, got |-> 0, ev |-> Key(KEY_NONE, 0)]

\* the press of a key that is neither a shift nor an extended one
kbd_normal_key(shiftv, code) ==
    LET emit(c) ==
            IF c = 0 THEN NoKey(0, shiftv)
            ELSE IF c = 10
            THEN [e0 |-> 0, shift_down |-> shiftv, got |-> 1, ev |-> Key(KEY_ENTER, 0)]
            ELSE IF c = 8
            THEN [e0 |-> 0, shift_down |-> shiftv, got |-> 1, ev |-> Key(KEY_BACKSPACE, 0)]
            ELSE IF c < 32 \/ c > 126 THEN NoKey(0, shiftv)
            ELSE [e0 |-> 0, shift_down |-> shiftv, got |-> 1, ev |-> Key(KEY_CHAR, c)]
    IN  emit(IF shiftv # 0 THEN scancode_to_ascii_shift(code) ELSE scancode_to_ascii(code))

\* an extended key that leaves the prefix flag set
kbd_extended_key_sticky(shiftv, code) ==
    CASE code = 75 -> [e0 |-> 1, shift_down |-> shiftv, got |-> 1, ev |-> Key(KEY_LEFT, 0)]
      [] code = 77 -> [e0 |-> 1, shift_down |-> shiftv, got |-> 1, ev |-> Key(KEY_RIGHT, 0)]
      [] code = 83 -> [e0 |-> 1, shift_down |-> shiftv, got |-> 1, ev |-> Key(KEY_DELETE, 0)]
      [] OTHER     -> NoKey(1, shiftv)

\* the press of a key that follows the 0xE0 prefix
kbd_extended_key(shiftv, code) ==
    CASE code = 75 -> [e0 |-> 0, shift_down |-> shiftv, got |-> 1, ev |-> Key(KEY_LEFT, 0)]
      [] code = 77 -> [e0 |-> 0, shift_down |-> shiftv, got |-> 1, ev |-> Key(KEY_RIGHT, 0)]
      [] code = 83 -> [e0 |-> 0, shift_down |-> shiftv, got |-> 1, ev |-> Key(KEY_DELETE, 0)]
      [] OTHER     -> NoKey(0, shiftv)

\* keyboard_try_get_key with the status bit set and the byte sc on the data
\* port: the new e0 and shift_down, the value returned and the event
keyboard_try_get_key(e0v, shiftv, sc) ==
    IF sc = 224 THEN NoKey(1, shiftv)
    ELSE LET released == IF sc >= 128 THEN 1 ELSE 0
             code     == sc % 128
         IN  IF e0v = 0 /\ (code = 42 \/ code = 54)
             THEN NoKey(e0v, IF released # 0 THEN 0 ELSE 1)
             ELSE IF released # 0 THEN NoKey(0, shiftv)
             ELSE IF e0v # 0 THEN kbd_extended_key(shiftv, code)
             ELSE kbd_normal_key(shiftv, code)

\* ---------------------------------------------------------- line editor
\* The locals of read_line are the record rl: out (the caller's buffer, the
\* sequence of its bytes: out[i] of the program is out[i + 1]), cap (out_cap),
\* len, cur, input_row, input_col.

read_line_begin(m, out, cap) ==
    [m  |-> vga_cursor_set_pos(m, m.term_row, m.term_col),
     rl |-> [out |-> [out EXCEPT ![1] = 0], cap |-> cap, len |-> 0, cur |-> 0,
             input_row |-> m.term_row, input_col |-> m.term_col]]

\* a backspace that moves no byte of the buffer
rl_backspace_no_shift(rl) == [rl EXCEPT !.cur = rl.cur - 1, !.len = rl.len - 1]

\* KEY_BACKSPACE with cur > 0: out[i] = out[i + 1] for i = cur - 1 .. len - 1
rl_backspace(rl) ==
    [rl EXCEPT !.out = SubSeq(rl.out, 1, rl.cur - 1) \o SubSeq(rl.out, rl.cur + 1, rl.len + 1)
                          \o SubSeq(rl.out, rl.len + 1, rl.cap),
               !.cur = rl.cur - 1,
               !.len = rl.len - 1]

\* KEY_DELETE with cur < len: out[i] = out[i + 1] for i = cur .. len - 1
rl_delete(rl) ==
    [rl EXCEPT !.out = SubSeq(rl.out, 1, rl.cur) \o SubSeq(rl.out, rl.cur + 2, rl.len + 1)
                          \o SubSeq(rl.out, rl.len + 1, rl.cap),
               !.len = rl.len - 1]

\* an insertion that writes ch over out[cur] and moves no byte
rl_insert_over(rl, ch) ==
    [rl EXCEPT !.out = SubSeq(rl.out, 1, rl.cur) \o <<ch>> \o SubSeq(rl.out, rl.cur + 2, rl.len + 1)
                          \o <<0>> \o SubSeq(rl.out, rl.len + 3, rl.cap),
               !.cur = rl.cur + 1,
               !.len = rl.len + 1]

\* KEY_CHAR with len + 1 < out_cap: out[i] = out[i - 1] for i = len .. cur + 1,
\* out[cur] = ch, out[len + 1] = 0
rl_insert(rl, ch) ==
    [rl EXCEPT !.out = SubSeq(rl.out, 1, rl.cur) \o <<ch>> \o SubSeq(rl.out, rl.cur + 1, rl.len)
                          \o <<0>> \o SubSeq(rl.out, rl.len + 3, rl.cap),
               !.cur = rl.cur + 1,
               !.len = rl.len + 1]

\* an editor that takes a character while len < out_cap
rl_edit_full(rl, ev) ==
    CASE ev.type = KEY_LEFT      -> IF rl.cur > 0 THEN [rl EXCEPT !.cur = rl.cur - 1] ELSE rl
      [] ev.type = KEY_RIGHT     -> IF rl.cur < rl.len THEN [rl EXCEPT !.cur = rl.cur + 1] ELSE rl
      [] ev.type = KEY_BACKSPACE -> IF rl.cur > 0 THEN rl_backspace(rl) ELSE rl
      [] ev.type = KEY_DELETE    -> IF rl.cur < rl.len THEN rl_delete(rl) ELSE rl
      [] ev.type = KEY_CHAR      -> IF rl.len < rl.cap THEN rl_insert(rl, ev.ch) ELSE rl
      [] OTHER                   -> rl

\* the buffer after an event other than KEY_ENTER
rl_edit(rl, ev) ==
    CASE ev.type = KEY_LEFT      -> IF rl.cur > 0 THEN [rl EXCEPT !.cur = rl.cur - 1] ELSE rl
      [] ev.type = KEY_RIGHT     -> IF rl.cur < rl.len THEN [rl EXCEPT !.cur = rl.cur + 1] ELSE rl
      [] ev.type = KEY_BACKSPACE -> IF rl.cur > 0 THEN rl_backspace(rl) ELSE rl
      [] ev.type = KEY_DELETE    -> IF rl.cur < rl.len THEN rl_delete(rl) ELSE rl
      [] ev.type = KEY_CHAR      -> IF rl.len + 1 < rl.cap THEN rl_insert(rl, ev.ch) ELSE rl
      [] OTHER                   -> rl

\* the redraw of the input line: out[i] for i < len, then spaces for
\* len <= i < out_cap - 1 with input_col + i < VGA_WIDTH; terminal_putc_at
\* drops what lies past the row
rl_redraw(vga, rl) ==
    IF rl.input_row >= VGA_HEIGHT \/ rl.input_col >= VGA_WIDTH THEN vga
    ELSE LET room  == VGA_WIDTH - rl.input_col
             shown == IF rl.len < room THEN rl.len ELSE room
             upto  == IF rl.cap - 1 < room THEN rl.cap - 1 ELSE room
             wiped == IF upto > shown THEN upto ELSE shown
             row   == vga[rl.input_row + 1]
         IN  [vga EXCEPT ![rl.input_row + 1] =
                 SubSeq(row, 1, rl.input_col)
                 \o [i \in 1 .. shown |-> vga_entry(rl.out[i])]
                 \o Fill(wiped - shown, BLANK)
                 \o SubSeq(row, rl.input_col + wiped + 1, VGA_WIDTH)]

\* one event given to read_line: the machine, the locals, and whether it returned
read_line_event(m, rl, ev) ==
    IF ev.type = KEY_ENTER
    THEN [m    |-> terminal_putc([m EXCEPT !.term_row = rl.input_row,
                                           !.term_col = rl.input_col + rl.len], 10),
          rl   |-> [rl EXCEPT !.out[rl.len + 1] = 0],
          done |-> TRUE]
    ELSE LET redrawn(r1) ==
                 [m    |-> vga_cursor_set_pos([m EXCEPT !.vga = rl_redraw(m.vga, r1)],
                                              r1.input_row, r1.input_col + r1.cur),
                  rl   |-> r1,
                  done |-> FALSE]
         IN  redrawn(rl_edit(rl, ev))

\* the events evs[lo], ..., evs[hi] given to read_line one after the other,
\* none of them KEY_ENTER (the range is halved to keep the evaluation shallow)
RECURSIVE read_line_events(_, _, _, _, _)
read_line_events(m, rl, evs, lo, hi) ==
    IF lo > hi \/ ~Evaluated(m) THEN [m |-> m, rl |-> rl, done |-> FALSE]
    ELSE IF lo = hi THEN read_line_event(m, rl, evs[lo])
    ELSE LET rest(left) == read_line_events(left.m, left.rl, evs, ((lo + hi) \div 2) + 1, hi)
         IN  rest(read_line_events(m, rl, evs, lo, (lo + hi) \div 2))

\* the C string held in a buffer: its bytes before the first NUL
c_string(out) ==
    LET nul == {i \in 1 .. Len(out) : out[i] = 0}
    IN  IF nul = {} THEN out
        ELSE SubSeq(out, 1, (CHOOSE i \in nul : \A j \in nul : i <= j) - 1)

\* ---------------------------------------------------------------- shell

\* uint32_t v is held as two 16-bit halves: v = hi * 65536 + lo
u32_mul10_add(v, d) ==
    LET lo10 == v.lo * 10 + d
        hi10 == v.hi * 10 + (lo10 \div 65536)
    IN  [hi |-> hi10 % 65536, lo |-> lo10 % 65536]

RECURSIVE parse_u32_from(_, _, _, _)
parse_u32_from(s, i, v, any) ==
    IF CharAt(s, i) = 0
    THEN IF any = 0 THEN [ok |-> 0, v |-> [hi |-> 0, lo |-> 0]] ELSE [ok |-> 1, v |-> v]
    ELSE IF CharAt(s, i) < 48 \/ CharAt(s, i) > 57 THEN [ok |-> 0, v |-> [hi |-> 0, lo |-> 0]]
    ELSE parse_u32_from(s, i + 1, u32_mul10_add(v, CharAt(s, i) - 48), 1)

\* parse_u32(s, &out): the value returned and, when it is 1, *out
parse_u32(s) == parse_u32_from(s, 0, [hi |-> 0, lo |-> 0], 0)

\* (int)id of a uint32_t
u32_to_int(v) == IF v.hi >= 32768 THEN (v.hi - 65536) * 65536 + v.lo ELSE v.hi * 65536 + v.lo

RECURSIVE print_tasks_from(_, _)
print_tasks_from(m, i) ==
    IF i >= MAX_TASKS \/ ~Evaluated(m) THEN m
    ELSE IF m.tasks[i].state = TASK_DEAD THEN print_tasks_from(m, i + 1)
    ELSE LET m1 == terminal_putc(m, 48 + (i % 10))
             m2 == terminal_write(m1, S_sp2)
             m3 == terminal_putc(m2, state_char(m.tasks[i].state))
             m4 == terminal_write(m3, S_sp5)
             m5 == terminal_write(m4, IF m.tasks[i].name # NULL_STR THEN m.tasks[i].name
                                      ELSE S_qmark)
         IN  print_tasks_from(terminal_putc(m5, 10), i + 1)

print_tasks_to_console(m) == print_tasks_from(terminal_write(m, S_ps_header), 0)

\* shutdown_machine with the first two outw exchanged
shutdown_machine_swapped(m) ==
    [m EXCEPT !.ports = m.ports \o << <<45060, 8192>>, <<1540, 8192>>, <<16388, 13312>> >>]

\* the three outw of shutdown_machine: <<port, value>>
shutdown_machine(m) ==
    [m EXCEPT !.ports = m.ports \o << <<1540, 8192>>, <<45060, 8192>>, <<16388, 13312>> >>]

prompt(m) == cursor_to_term(terminal_write(m, S_prompt))

NoCall == [called |-> FALSE, id |-> 0, ret |-> 0, changed |-> {}, before |-> << >>,
           m |-> << >>]

\* the fields of the machine state in which a and b differ
Changed(a, b) == {f \in DOMAIN a : a[f] # b[f]}

\* One pass of the body of task_shell's loop after read_line returned the line
\* in buf, up to the yield that ends it.  then: where the shell goes on
\* ("cmd_yield": the yield of the yield command, "loop_end": the yield that
\* ends the loop body, "halt": shutdown_machine).  out: the text written with
\* terminal_write, pre: the machine state before it is written.  kill,
\* create: the call of task_kill or task_create made, with the machine state
\* before and right after it.
shell_command(m, buf) ==
    LET plain(text, then) == [m |-> terminal_write(m, text), then |-> then, out |-> text,
                              pre |-> m, kill |-> NoCall, create |-> NoCall]
        killed(id, k) ==
            [m |-> terminal_write(k.m, IF k.ret # 0 THEN S_killed ELSE S_usage),
             then |-> "loop_end",
             out |-> IF k.ret # 0 THEN S_killed ELSE S_usage,
             pre |-> k.m,
             kill |-> [called |-> TRUE, id |-> id, ret |-> k.ret,
                       changed |-> Changed(m, k.m), before |-> m, m |-> k.m],
             create |-> NoCall]
        kill_id(id) == killed(id, task_kill(m, id))
        kill_arg(p) == IF p.ok # 0 THEN kill_id(u32_to_int(p.v)) ELSE plain(S_usage, "loop_end")
        spawned(c, text) ==
            [m |-> terminal_write(c.m, IF c.ret >= 0 THEN text ELSE S_noslots),
             then |-> "loop_end",
             out |-> IF c.ret >= 0 THEN text ELSE S_noslots,
             pre |-> c.m,
             kill |-> NoCall,
             create |-> [called |-> TRUE, id |-> c.ret, ret |-> c.ret,
                         changed |-> Changed(m, c.m), before |-> m, m |-> c.m]]
        cleared(c) == [m |-> c, then |-> "loop_end", out |-> << >>, pre |-> c,
                       kill |-> NoCall, create |-> NoCall]
    IN  IF streq(buf, L_thanks) THEN plain(S_welcome, "loop_end")
        ELSE IF streq(buf, L_exit)
        THEN [m |-> shutdown_machine(terminal_write(m, S_shutting)), then |-> "halt",
              out |-> S_shutting, pre |-> m, kill |-> NoCall, create |-> NoCall]
        ELSE IF streq(buf, L_clear) THEN cleared(overlays_redraw(terminal_clear_text_area(m)))
        ELSE IF streq(buf, L_ps)
        THEN [m |-> print_tasks_to_console(m), then |-> "loop_end", out |-> S_ps_header,
              pre |-> m, kill |-> NoCall, create |-> NoCall]
        ELSE IF starts_with(buf, L_kill_)
        THEN kill_arg(parse_u32(SubSeq(buf, Len(L_kill_) + 1, Len(buf))))
        ELSE IF streq(buf, L_spawn_hb0)
        THEN spawned(task_create(m, FN_heartbeat0, N_heartbeat0), S_spawned0)
        ELSE IF streq(buf, L_spawn_hb1)
        THEN spawned(task_create(m, FN_heartbeat1, N_heartbeat1), S_spawned1)
        ELSE IF streq(buf, L_yield) THEN plain(S_yield_msg, "cmd_yield")
        ELSE plain(S_unknown, "loop_end")

\* ----------------------------------------------------------- heartbeats

\* the body of the loop of task_heartbeat0 / task_heartbeat1 before task_delay:
\* the overlay row of instance idx is cleared and rendered
heartbeat_render(vga, tasks, me, n, hb_name, row_base, label) ==
    LET render(idx) ==
            IF idx >= 0 /\ idx < HB_MAX_LINES
            THEN LET row == row_base + idx
                     v1 == overlay_clear_line(vga, row)
                     v2 == terminal_write_at(v1, row, HB_COL, label)
                     v3 == terminal_putc_at(v2, row, HB_COL + 5, 48 + (me % 10))
                     v4 == terminal_write_at(v3, row, HB_COL + 6, S_colon)
                 IN  terminal_putc_at(v4, row, HB_COL + 9, 48 + (n % 10))
            ELSE vga
    IN  render(hb_instance_index(tasks, hb_name, me))

\* ------------------------------------------------------ display regions

\* the rows of the two overlay bands
OverlayRows == HB0_ROW_BASE .. (HB1_ROW_BASE + HB_MAX_LINES - 1)

\* the cells of a row that overlay_clear_line clears
band(vga, row) == SubSeq(vga[row + 1], HB_COL + 1, VGA_WIDTH)

\* the overlay rows in which v1 and v2 differ in a cell of the band
BandRowsChanged(v1, v2) == {r \in OverlayRows : band(v1, r) # band(v2, r)}

\* the overlay rows that show something in the band
BandRowsShown(v) == {r \in OverlayRows : band(v, r) # Fill(VGA_WIDTH - HB_COL, BLANK)}

\* the rows of the HUD rectangle and the cells of a row that lie in it
HudRows == hud_start_row .. (VGA_HEIGHT - 1)

hud(vga, row) == SubSeq(vga[row + 1], hud_start_col + 1, VGA_WIDTH)

HudRowsChanged(v1, v2) == {r \in HudRows : hud(v1, r) # hud(v2, r)}

\* the rows in which v1 and v2 differ in a cell outside the band cells of `rows`
RowsChangedOutside(v1, v2, rows) ==
    {r \in 0 .. (VGA_HEIGHT - 1) :
        /\ v1[r + 1] # v2[r + 1]
        /\ \/ r \notin rows
           \/ SubSeq(v1[r + 1], 1, HB_COL) # SubSeq(v2[r + 1], 1, HB_COL)}

\* the band of `row` starts with the text a heartbeat named hb_name renders for slot id
ShowsHeartbeat(v, row, hb_name, id) ==
    /\ row \in OverlayRows
    /\ \/ streq(hb_name, N_heartbeat0) /\ \A i \in 1 .. Len(S_HB0) : v[row + 1][HB_COL + i] = vga_entry(S_HB0[i])
       \/ streq(hb_name, N_heartbeat1) /\ \A i \in 1 .. Len(S_HB1) : v[row + 1][HB_COL + i] = vga_entry(S_HB1[i])
    /\ v[row + 1][HB_COL + 6] = vga_entry(48 + (id % 10))

\* ---------------------------------------------------------------- state

VARIABLES
    vga, term_row, term_col, hw_cursor,      \* the display
    tasks, task_count, current_task, hud_dirty,
    ports,                                   \* the outw writes so far
    halted,                                  \* in the cli; hlt loop of shutdown_machine
    e0, shift_down,                          \* the keyboard poller's statics
    pc,                                      \* slot -> where its task resumes
    hb_n,                                    \* slot -> n of its heartbeat
    hb_left,                                 \* slot -> yields left in its task_delay
    hb_row,                                  \* slot -> the row its heartbeat rendered last
    rl,                                      \* the shell's buf and read_line's locals
    ncmd,                                    \* lines entered so far
    nidle,                                   \* keyboard polls of the shell that found no key
    sched_log,                               \* history: current_task after each schedule()
                                             \* since the table last changed
    waited,                                  \* history: per slot, the schedule() calls since
                                             \* the slot's READY task last ran
    pre_create,                              \* history: the table before the last task_create
    obs                                      \* history: what the last step did

vars == <<vga, term_row, term_col, hw_cursor, tasks, task_count, current_task,
          hud_dirty, ports, halted, e0, shift_down, pc, hb_n, hb_left, hb_row, rl,
          ncmd, nidle, sched_log, waited, pre_create, obs>>

\* the machine state as the record the operators above work on
M == [vga |-> vga, term_row |-> term_row, term_col |-> term_col, hw_cursor |-> hw_cursor,
      tasks |-> tasks, task_count |-> task_count, current_task |-> current_task,
      hud_dirty |-> hud_dirty, ports |-> ports]

SetM(m) ==
    /\ vga' = m.vga
    /\ term_row' = m.term_row
    /\ term_col' = m.term_col
    /\ hw_cursor' = m.hw_cursor
    /\ tasks' = m.tasks
    /\ task_count' = m.task_count
    /\ current_task' = m.current_task
    /\ hud_dirty' = m.hud_dirty
    /\ ports' = m.ports

\* ---------------------------------------------------------------- bounds

\* lines the user enters in one run
MaxCmds == 3

\* keyboard polls of the shell that find no key in one run
MaxIdle == 1

\* spawn commands in one run of SpecSpawn
MaxSpawns == 9

\* the largest out_cap read_line is given in SpecEdit
MaxCap == 3

\* yields of one task_delay(800000) and of one task_delay(1100000): one for each
\* i < loops with (i & 0x3FFF) == 0, which is 49 and 68 in the program
HB0_DELAY_YIELDS == 2
HB1_DELAY_YIELDS == 3

\* n of a heartbeat wraps here (at 2^32 in the program)
BEAT_WRAP == 2

\* ------------------------------------------------------------------ boot

\* tasks[0 .. n] with every slot DEAD and zeroed
RECURSIVE dead_table(_)
dead_table(n) == IF n = 0 THEN 0 :> DeadTask ELSE dead_table(n - 1) @@ (n :> DeadTask)

\* kmain up to its call of schedule()
kmain_boot ==
    LET m0 == terminal_clear([vga |-> Fill(VGA_HEIGHT, BlankRow),
                              term_row |-> 0, term_col |-> 0, hw_cursor |-> 0,
                              tasks |-> dead_table(MAX_TASKS - 1), task_count |-> 0,
                              current_task |-> -1, hud_dirty |-> 1, ports |-> << >>])
        m1 == terminal_write(terminal_write(terminal_write(m0, S_hello), S_features),
                             S_feature_list)
        m2 == cursor_to_term(m1)
        m3 == terminal_write(m2, S_starting)
        m4 == [m3 EXCEPT !.tasks = dead_table(MAX_TASKS - 1), !.task_count = 0,
                         !.current_task = -1]
        m5 == task_create(m4, FN_shell, N_shell).m
        m6 == task_create(m5, FN_heartbeat0, N_heartbeat0).m
    IN  task_create(m6, FN_heartbeat1, N_heartbeat1).m

\* what a stack holds before it is written: any bytes
StackGarbage == {0, 255}

\* char buf[INPUT_MAX] of task_shell before read_line is called
shell_buf(g) == [out |-> Fill(INPUT_MAX, g), cap |-> INPUT_MAX,
                 len |-> 0, cur |-> 0, input_row |-> 0, input_col |-> 0]

NoObsCall == [called |-> FALSE, id |-> 0, ret |-> 0, changed |-> {}, cur |-> -1,
            before |-> << >>, after |-> << >>]

NoImage == [slot |-> -1, tasks |-> << >>]

NoUndo == [set |-> FALSE, rl |-> << >>]

\* the display and the logical cursor before and after a put_char
NoEnter == [set |-> FALSE, before |-> << >>, after |-> << >>]

Cursor(m) == [vga |-> m.vga, row |-> m.term_row, col |-> m.term_col]

\* no poll of the keyboard: sc the byte read, e0 the prefix flag before the
\* call, got and ev what keyboard_try_get_key returned
NoPoll == [set |-> FALSE, sc |-> 0, e0 |-> 0, got |-> 0, ev |-> Key(KEY_NONE, 0)]

NoObs == [op |-> "boot", line |-> << >>, out |-> << >>, kill |-> NoObsCall, create |-> NoObsCall,
          kill_owned |-> -1, kill_ran |-> FALSE, kill_band |-> {}, kill_shown |-> {},
          kill_image |-> NoImage, text_band |-> {}, text_hud |-> {}, hb_outside |-> {},
          ev |-> Key(KEY_NONE, 0), held |-> NoUndo, undo |-> NoUndo,
          keys |-> << >>, steps |-> << >>, me |-> -1, out_row |-> -1,
          enter |-> NoEnter, kbd |-> NoPoll]

\* no slot has waited
NoWait == [n |-> [i \in Slots |-> 0], got |-> 0]

\* After a schedule() that left the table t and current_task cur: n[i] is the
\* number of schedule() calls that passed over the READY task of slot i since
\* it was created or ran last (counted up to MAX_TASKS), and got is the number
\* of the call that made cur the running task, counted from the same point.
Waited(w, t, cur) ==
    [n   |-> [i \in Slots |-> IF i = cur \/ t[i].state # TASK_READY THEN 0
                              ELSE IF w.n[i] < MAX_TASKS THEN w.n[i] + 1
                              ELSE MAX_TASKS],
     got |-> IF cur \in Slots THEN w.n[cur] + 1 ELSE 0]

\* the program in machine state m, its tasks at p and the shell's locals r
InitWith(m, r, p) ==
    /\ vga = m.vga
    /\ term_row = m.term_row
    /\ term_col = m.term_col
    /\ hw_cursor = m.hw_cursor
    /\ tasks = m.tasks
    /\ task_count = m.task_count
    /\ current_task = m.current_task
    /\ hud_dirty = m.hud_dirty
    /\ ports = m.ports
    /\ halted = FALSE
    /\ e0 = 0
    /\ shift_down = 0
    /\ pc = p
    /\ hb_n = [i \in Slots |-> 0]
    /\ hb_left = [i \in Slots |-> 0]
    /\ hb_row = [i \in Slots |-> -1]
    /\ rl = r
    /\ ncmd = 0
    /\ nidle = 0
    /\ sched_log = << >>
    /\ waited = NoWait
    /\ pre_create = NoImage
    /\ obs = NoObs

\* kmain about to call schedule()
InitFrom(m, g) ==
    InitWith(m, shell_buf(g),
             [i \in Slots |-> IF m.tasks[i].state = TASK_DEAD THEN "none" ELSE "entry"])

Init == \E g \in StackGarbage : InitFrom(kmain_boot, g)

\* --------------------------------------------------------------- actions

\* a call of task_kill or task_create made by a shell command, without the display
ObsCall(c) == [called |-> c.called, id |-> c.id, ret |-> c.ret, changed |-> c.changed,
               cur |-> IF c.called THEN c.before.current_task ELSE -1,
               before |-> IF c.called THEN c.before.tasks ELSE << >>,
               after |-> IF c.called THEN c.m.tasks ELSE << >>]

\* current_task after a schedule() is added to the history, which starts
\* again when the table changed; the last MAX_TASKS entries are kept
Logged(reset, cur) ==
    IF reset THEN <<cur>>
    ELSE IF Len(sched_log) >= MAX_TASKS THEN Append(Tail(sched_log), cur)
    ELSE Append(sched_log, cur)

\* kmain's call of schedule(): the first switch into a task
KmainSchedule ==
    /\ current_task = -1
    /\ ~halted
    /\ SetM(schedule(M, "kmain"))
    /\ obs' = [NoObs EXCEPT !.op = "kmain_schedule"]
    /\ sched_log' = Logged(TRUE, current_task')
    /\ waited' = Waited(waited, tasks', current_task')
    /\ UNCHANGED <<halted, e0, shift_down, pc, hb_n, hb_left, hb_row, rl, ncmd, nidle,
                   pre_create>>

\* the task in slot i is the one that runs
Runs(i) == current_task = i /\ ~halted

\* the code a task that runs resumes in
CodeOf(i) == IF pc[i] = "entry" THEN tasks[i].entry ELSE pc[i]

\* The shell from where it resumes up to the keyboard poll of read_line: at its
\* entry and after the yield that ends the loop body, prompt() and the start of
\* read_line; nothing when it resumes in read_line.
shell_to_poll(m, r0, at) ==
    IF at = "read_line" THEN [m |-> m, rl |-> r0]
    ELSE read_line_begin(prompt(m), r0.out, INPUT_MAX)

\* the shell polls the keyboard, finds no key and yields
ShellIdle(max) ==
    /\ Runs(current_task)
    /\ current_task \in Slots
    /\ CodeOf(current_task) \in {FN_shell, "loop_end", "read_line"}
    /\ nidle < max
    /\ LET yielded(b) == /\ SetM(schedule(b.m, "read_line"))
                          /\ rl' = b.rl
                          /\ obs' = [NoObs EXCEPT !.op = "shell_idle",
                                                  !.me = current_task,
                                                  !.text_band = BandRowsChanged(vga, b.m.vga),
                                                  !.text_hud = HudRowsChanged(vga, b.m.vga)]
       IN  yielded(shell_to_poll(M, rl, CodeOf(current_task)))
    /\ pc' = [pc EXCEPT ![current_task] = "read_line"]
    /\ nidle' = nidle + 1
    /\ sched_log' = Logged(FALSE, current_task')
    /\ waited' = Waited(waited, tasks', current_task')
    /\ UNCHANGED <<halted, e0, shift_down, hb_n, hb_left, hb_row, ncmd, pre_create>>

\* the key events of the characters of a line
LineKeys(line) == [i \in 1 .. Len(line) |-> Key(KEY_CHAR, line[i])]

\* the shell from where it resumes until read_line returns `line`
shell_line_read(m, r0, at, line) ==
    LET typed(b) == read_line_events(b.m, b.rl, LineKeys(line), 1, Len(line))
        entered(t) == read_line_event(t.m, t.rl, Key(KEY_ENTER, 0))
    IN  entered(typed(shell_to_poll(m, r0, at)))

\* a shell command made a call that changed the task table
KillDone(c) == c.kill.called /\ c.kill.ret # 0

CreateDone(c) == c.create.called /\ c.create.ret >= 0

\* the locals of the tasks after a shell command: a killed task has none, a
\* created one starts at task_trampoline
LocalsAfter(f, c, dead, fresh) ==
    IF KillDone(c) THEN [f EXCEPT ![c.kill.id] = dead]
    ELSE IF CreateDone(c) THEN [f EXCEPT ![c.create.ret] = fresh]
    ELSE f

\* what a pass of the shell's loop did: r is what read_line gave, c what
\* shell_command gave
ShellObs(line, r, c) ==
    [NoObs EXCEPT
        !.op = "shell_line",
        !.me = current_task,
        !.line = line,
        !.out = c.out,
        !.out_row = c.pre.term_row,
        !.kill = ObsCall(c.kill),
        !.create = ObsCall(c.create),
        !.kill_owned = IF /\ KillDone(c)
                          /\ hb_row[c.kill.id] >= 0
                          /\ ShowsHeartbeat(c.kill.before.vga, hb_row[c.kill.id],
                                            c.kill.before.tasks[c.kill.id].name, c.kill.id)
                       THEN hb_row[c.kill.id] ELSE -1,
        !.kill_ran = KillDone(c) /\ pc[c.kill.id] \notin {"none", "entry"},
        !.kill_band = IF c.kill.called THEN BandRowsChanged(c.kill.before.vga, c.kill.m.vga)
                      ELSE {},
        !.kill_shown = IF c.kill.called THEN BandRowsShown(c.kill.m.vga) ELSE {},
        !.kill_image = IF c.kill.called THEN pre_create ELSE NoImage,
        !.text_band = BandRowsChanged(vga, r.m.vga) \cup BandRowsChanged(c.pre.vga, c.m.vga),
        !.text_hud = HudRowsChanged(vga, r.m.vga) \cup HudRowsChanged(c.pre.vga, c.m.vga)]

\* the end of a pass of the shell's loop
ShellLineEnd(line, r, c) ==
    /\ IF c.then = "halt"
       THEN /\ SetM(c.m)
            /\ halted' = TRUE
            /\ pc' = pc
            /\ sched_log' = sched_log
            /\ waited' = waited
       ELSE /\ SetM(schedule(c.m, c.then))
            /\ halted' = halted
            /\ pc' = [LocalsAfter(pc, c, "none", "entry") EXCEPT ![current_task] = c.then]
            /\ sched_log' = Logged(KillDone(c) \/ CreateDone(c), current_task')
            /\ waited' = Waited(waited, tasks', current_task')
    /\ hb_n' = LocalsAfter(hb_n, c, 0, 0)
    /\ hb_left' = LocalsAfter(hb_left, c, 0, 0)
    /\ hb_row' = LocalsAfter(hb_row, c, -1, -1)
    /\ pre_create' = IF CreateDone(c)
                     THEN [slot |-> c.create.ret, tasks |-> c.create.before.tasks]
                     ELSE IF KillDone(c) THEN NoImage
                     ELSE pre_create
    /\ rl' = r.rl
    /\ obs' = ShellObs(line, r, c)

\* the shell finds the keys of `line` and ENTER one after the other, runs the
\* command and reaches its next yield (or halts)
ShellLine(line, max) ==
    /\ Runs(current_task)
    /\ current_task \in Slots
    /\ CodeOf(current_task) \in {FN_shell, "loop_end", "read_line"}
    /\ ncmd < max
    /\ LET run(r) == ShellLineEnd(line, r, shell_command(r.m, c_string(r.rl.out)))
       IN  run(shell_line_read(M, rl, CodeOf(current_task), line))
    /\ ncmd' = ncmd + 1
    /\ UNCHANGED <<e0, shift_down, nidle>>

\* the locals of read_line before keys[i] and after each of keys[i], ..., keys[Len(keys)]
RECURSIVE rl_steps(_, _, _)
rl_steps(r, keys, i) ==
    IF i > Len(keys) THEN <<r>>
    ELSE <<r>> \o rl_steps(rl_edit(r, keys[i]), keys, i + 1)

\* The shell finds the key events `keys` (none of them KEY_ENTER) and ENTER one
\* after the other, runs the command and reaches its next yield (or halts).
\* b: the shell at the keyboard poll of read_line, t: after the keys, r: after
\* ENTER, c: after the command.
ShellKeys(keys, max) ==
    /\ Runs(current_task)
    /\ current_task \in Slots
    /\ CodeOf(current_task) \in {FN_shell, "loop_end", "read_line"}
    /\ ncmd < max
    /\ LET seen(b, t, r, c) ==
               [ShellObs(c_string(r.rl.out), r, c) EXCEPT
                   !.keys = keys,
                   !.steps = rl_steps(b.rl, keys, 1),
                   !.enter = [set    |-> TRUE,
                              before |-> Cursor([t.m EXCEPT
                                                    !.term_row = t.rl.input_row,
                                                    !.term_col = t.rl.input_col + t.rl.len]),
                              after  |-> Cursor(r.m)]]
           end(b, t, r, c) ==
               /\ IF c.then = "halt"
                  THEN /\ SetM(c.m)
                       /\ halted' = TRUE
                       /\ pc' = pc
                       /\ sched_log' = sched_log
                       /\ waited' = waited
                  ELSE /\ SetM(schedule(c.m, c.then))
                       /\ halted' = halted
                       /\ pc' = [LocalsAfter(pc, c, "none", "entry") EXCEPT ![current_task] = c.then]
                       /\ sched_log' = Logged(KillDone(c) \/ CreateDone(c), current_task')
                       /\ waited' = Waited(waited, tasks', current_task')
               /\ hb_n' = LocalsAfter(hb_n, c, 0, 0)
               /\ hb_left' = LocalsAfter(hb_left, c, 0, 0)
               /\ hb_row' = LocalsAfter(hb_row, c, -1, -1)
               /\ pre_create' = IF CreateDone(c)
                                THEN [slot |-> c.create.ret, tasks |-> c.create.before.tasks]
                                ELSE IF KillDone(c) THEN NoImage
                                ELSE pre_create
               /\ rl' = r.rl
               /\ obs' = seen(b, t, r, c)
           run(b, t, r) == end(b, t, r, shell_command(r.m, c_string(r.rl.out)))
           entered(b, t) == run(b, t, read_line_event(t.m, t.rl, Key(KEY_ENTER, 0)))
           typed(b) == entered(b, read_line_events(b.m, b.rl, keys, 1, Len(keys)))
       IN  typed(shell_to_poll(M, rl, CodeOf(current_task)))
    /\ ncmd' = ncmd + 1
    /\ UNCHANGED <<e0, shift_down, nidle>>

\* the keys a, b, c, d, e, f, LEFT, LEFT, X
EditScript ==
    LineKeys(<<97, 98, 99, 100, 101, 102>>)
        \o <<Key(KEY_LEFT, 0), Key(KEY_LEFT, 0), Key(KEY_CHAR, 88)>>

\* the shell returns from the yield of its yield command and yields again
ShellAfterYield ==
    /\ Runs(current_task)
    /\ current_task \in Slots
    /\ CodeOf(current_task) = "cmd_yield"
    /\ SetM(schedule(M, "loop_end"))
    /\ pc' = [pc EXCEPT ![current_task] = "loop_end"]
    /\ obs' = [NoObs EXCEPT !.op = "shell_after_yield", !.me = current_task]
    /\ sched_log' = Logged(FALSE, current_task')
    /\ waited' = Waited(waited, tasks', current_task')
    /\ UNCHANGED <<halted, e0, shift_down, hb_n, hb_left, hb_row, rl, ncmd, nidle,
                   pre_create>>

\* A heartbeat from where it resumes to its next yield in task_delay.  With
\* yields of the current task_delay left it goes on in its loop; otherwise (and
\* at its entry) the loop ends, the overlay row is rendered, n is incremented
\* and the next task_delay yields at i = 0.
HeartbeatRun(fn, site, hb_name, row_base, label, yields) ==
    /\ Runs(current_task)
    /\ current_task \in Slots
    /\ CodeOf(current_task) \in {fn, site}
    /\ LET me == current_task
           tick == pc[me] = "entry" \/ hb_left[me] = 0
           idx == hb_instance_index(tasks, hb_name, me)
           beat(v) ==
               /\ SetM(schedule([M EXCEPT !.vga = v], site))
               /\ obs' = [NoObs EXCEPT
                             !.op = IF tick THEN "hb_tick" ELSE "hb_delay",
                             !.me = me,
                             !.hb_outside = RowsChangedOutside(
                                                vga, v, row_base .. (row_base + HB_MAX_LINES - 1))]
       IN  /\ beat(IF tick
                   THEN heartbeat_render(vga, tasks, me, hb_n[me], hb_name, row_base, label)
                   ELSE vga)
           /\ hb_n' = IF tick THEN [hb_n EXCEPT ![me] = (hb_n[me] + 1) % BEAT_WRAP] ELSE hb_n
           /\ hb_left' = [hb_left EXCEPT ![me] = IF tick THEN yields - 1 ELSE hb_left[me] - 1]
           /\ hb_row' = IF tick /\ idx >= 0 /\ idx < HB_MAX_LINES
                        THEN [hb_row EXCEPT ![me] = row_base + idx]
                        ELSE hb_row
           /\ pc' = [pc EXCEPT ![me] = site]
    /\ sched_log' = Logged(FALSE, current_task')
    /\ waited' = Waited(waited, tasks', current_task')
    /\ UNCHANGED <<halted, e0, shift_down, rl, ncmd, nidle, pre_create>>

Heartbeat0Run ==
    HeartbeatRun(FN_heartbeat0, "hb0_delay", N_heartbeat0, HB0_ROW_BASE, S_HB0, HB0_DELAY_YIELDS)

Heartbeat1Run ==
    HeartbeatRun(FN_heartbeat1, "hb1_delay", N_heartbeat1, HB1_ROW_BASE, S_HB1, HB1_DELAY_YIELDS)

Digit(d) == 48 + d

\* "kill 4294967297": 2^32 + 1
L_kill_wrap == L_kill_ \o <<52, 50, 57, 52, 57, 54, 55, 50, 57, 55>>

\* the lines entered in the runs of Spec
CmdLines == {L_spawn_hb0, L_ps, L_clear, L_yield, L_exit,
             L_kill_ \o <<Digit(0)>>, L_kill_ \o <<Digit(1)>>, L_kill_ \o <<Digit(3)>>,
             L_kill_ \o <<Digit(8)>>, L_kill_wrap, <<Digit(1)>>}

Next ==
    \/ KmainSchedule
    \/ ShellIdle(MaxIdle)
    \/ \E line \in CmdLines : ShellLine(line, MaxCmds)
    \/ ShellKeys(EditScript, MaxCmds)
    \/ ShellAfterYield
    \/ Heartbeat0Run
    \/ Heartbeat1Run

Spec == Init /\ [][Next]_vars

\* ---------------------------------------------- runs of spawn commands

NextSpawn ==
    \/ KmainSchedule
    \/ ShellIdle(MaxIdle)
    \/ ShellLine(L_spawn_hb0, MaxSpawns)
    \/ Heartbeat0Run
    \/ Heartbeat1Run

\* the runs in which every line entered is `spawn hb0`
SpecSpawn == Init /\ [][NextSpawn]_vars

\* ------------------------------------- runs of spawn and kill commands

\* commands in one run of SpecRotate
MaxRotateCmds == 8

\* the lines entered in the runs of SpecRotate
RotateLines == {L_spawn_hb0, L_kill_ \o <<Digit(3)>>}

NextRotate ==
    \/ KmainSchedule
    \/ ShellIdle(MaxIdle)
    \/ \E line \in RotateLines : ShellLine(line, MaxRotateCmds)
    \/ Heartbeat0Run
    \/ Heartbeat1Run

\* the runs that fill the table, free slot 3 and fill it again
SpecRotate == Init /\ [][NextRotate]_vars

\* ------------------------------------------- a task whose entry returns

\* No entry function of kernel.c returns (the shell and the heartbeats loop
\* forever, `exit` halts), so the call of task_exit in task_trampoline is
\* reached only by a task that task_create is given another entry for.  The
\* runs of SpecExit start after a kmain that also creates such a task.

\* an entry function that returns at once
FN_returns == "returns"

\* "once": the name of the task with that entry
N_returns == <<111, 110, 99, 101>>

\* a task_exit that marks its task DEAD before it yields
task_exit_dies(m) ==
    schedule([m EXCEPT !.tasks[m.current_task].state = TASK_DEAD], "task_exit")

\* task_exit: one turn of `for (;;) yield();`
task_exit(m) == schedule(m, "task_exit")

\* task_trampoline of a task whose entry returns, and every turn of the loop
\* of task_exit after it: the task yields
TaskExitRun ==
    /\ Runs(current_task)
    /\ current_task \in Slots
    /\ CodeOf(current_task) \in {FN_returns, "task_exit"}
    /\ SetM(task_exit(M))
    /\ obs' = [NoObs EXCEPT !.op = "task_exit", !.me = current_task]
    /\ pc' = [pc EXCEPT ![current_task] = "task_exit"]
    /\ sched_log' = Logged(FALSE, current_task')
    /\ waited' = Waited(waited, tasks', current_task')
    /\ UNCHANGED <<halted, e0, shift_down, hb_n, hb_left, hb_row, rl, ncmd, nidle,
                   pre_create>>

\* commands in one run of SpecExit
MaxExitCmds == 6

\* the lines entered in the runs of SpecExit
ExitLines == {L_spawn_hb0, L_kill_ \o <<Digit(3)>>}

InitExit ==
    \E g \in StackGarbage :
        InitFrom(task_create(kmain_boot, FN_returns, N_returns).m, g)

NextExit ==
    \/ KmainSchedule
    \/ ShellIdle(MaxIdle)
    \/ \E line \in ExitLines : ShellLine(line, MaxExitCmds)
    \/ Heartbeat0Run
    \/ Heartbeat1Run
    \/ TaskExitRun

SpecExit == InitExit /\ [][NextExit]_vars

\* ------------------------------------------------- the line editor alone

\* the shell's pass for `line` from its prompt to the yield that ends it
shell_pass(m, r0, line) ==
    LET cmd(r) == [m  |-> schedule(shell_command(r.m, c_string(r.rl.out)).m, "loop_end"),
                   rl |-> r.rl]
    IN  cmd(shell_line_read(m, r0, FN_shell, line))

\* heartbeat1 in slot 2 runs from its entry to the first yield of its task_delay
heartbeat1_first(p) ==
    [m  |-> schedule([p.m EXCEPT !.vga = heartbeat_render(p.m.vga, p.m.tasks, 2, 0,
                                                          N_heartbeat1, HB1_ROW_BASE, S_HB1)],
                     "hb1_delay"),
     rl |-> p.rl]

\* the capacities read_line is called with
EditCaps == 2 .. MaxCap

\* The program after boot and the lines `kill 1` and `kill 2` (heartbeat1 runs
\* once in between): the shell is the only task, and every yield of read_line
\* returns to it at once.  read_line starts on a buffer of cap bytes.
InitEdit ==
    \E g \in StackGarbage, cap \in EditCaps :
        \E b0 \in {schedule(kmain_boot, "kmain")} :
            \E p1 \in {shell_pass(b0, shell_buf(g), L_kill_ \o <<Digit(1)>>)} :
                \E p2 \in {heartbeat1_first(p1)} :
                    \E p3 \in {shell_pass(p2.m, p2.rl, L_kill_ \o <<Digit(2)>>)} :
                        \E b \in {read_line_begin(prompt(p3.m), Fill(cap, g), cap)} :
                            InitWith(b.m, b.rl,
                                     [i \in Slots |-> IF i = 0 THEN "read_line" ELSE "none"])

\* the bytes read from the keyboard data port: Esc, Backspace, Enter, A, left
\* Shift, Left, Right and Delete pressed, A and left Shift released, the
\* prefix 0xE0
ScanBytes == {1, 14, 28, 30, 42, 75, 77, 83, 158, 170, 224}

\* One pass of the loop of read_line with the byte sc on the data port: without
\* a key event read_line yields, with one it edits and redraws the line or
\* returns it.
EditByte(sc) ==
    /\ Runs(current_task)
    /\ current_task \in Slots
    /\ CodeOf(current_task) = "read_line"
    /\ LET handled(k, r) ==
               /\ SetM(r.m)
               /\ rl' = r.rl
               /\ pc' = IF r.done THEN [pc EXCEPT ![current_task] = "line_done"] ELSE pc
               /\ sched_log' = sched_log
               /\ waited' = waited
               /\ obs' = [NoObs EXCEPT
                             !.op = "edit_key",
                             !.me = current_task,
                             !.ev = k.ev,
                             !.held = IF k.ev.type = KEY_CHAR /\ rl.cur = rl.len
                                      THEN [set |-> TRUE, rl |-> rl]
                                      ELSE NoUndo,
                             !.undo = obs.held,
                             !.kbd = [set |-> TRUE, sc |-> sc, e0 |-> e0, got |-> k.got,
                                      ev |-> k.ev]]
           polled(k) ==
               /\ e0' = k.e0
               /\ shift_down' = k.shift_down
               /\ IF k.got = 0
                  THEN /\ SetM(schedule(M, "read_line"))
                       /\ rl' = rl
                       /\ pc' = pc
                       /\ sched_log' = Logged(FALSE, current_task')
                       /\ waited' = Waited(waited, tasks', current_task')
                       /\ obs' = [obs EXCEPT !.op = "edit_poll", !.me = current_task,
                                              !.undo = NoUndo,
                                              !.kbd = [set |-> TRUE, sc |-> sc, e0 |-> e0,
                                                       got |-> k.got, ev |-> k.ev]]
                  ELSE handled(k, read_line_event(M, rl, k.ev))
       IN  polled(keyboard_try_get_key(e0, shift_down, sc))
    /\ UNCHANGED <<halted, hb_n, hb_left, hb_row, ncmd, nidle, pre_create>>

NextEdit == \E sc \in ScanBytes : EditByte(sc)

SpecEdit == InitEdit /\ [][NextEdit]_vars

\* ------------------------------------------------ the text area scrolls

\* lines entered in one run of SpecScroll
MaxScrollCmds == 5

\* The program after boot and the lines `kill 1` and `kill 2` (heartbeat1 runs
\* once in between): the shell is the only task and is about to write its
\* prompt on row 11; every yield returns to it at once.
InitScroll ==
    \E g \in StackGarbage :
        \E b0 \in {schedule(kmain_boot, "kmain")} :
            \E p1 \in {shell_pass(b0, shell_buf(g), L_kill_ \o <<Digit(1)>>)} :
                \E p2 \in {heartbeat1_first(p1)} :
                    \E p3 \in {shell_pass(p2.m, p2.rl, L_kill_ \o <<Digit(2)>>)} :
                        InitWith(p3.m, p3.rl,
                                 [i \in Slots |-> IF i = 0 THEN "loop_end" ELSE "none"])

\* a line of 78 characters: with the prompt it fills its row
LongLine == Fill(VGA_WIDTH - Len(S_prompt), 97)

\* the keys entered in the runs of SpecScroll: ps, a long line, an empty line
ScrollKeys == {LineKeys(L_ps), LineKeys(LongLine), << >>}

NextScroll ==
    \/ ShellIdle(MaxIdle)
    \/ \E keys \in ScrollKeys : ShellKeys(keys, MaxScrollCmds)

SpecScroll == InitScroll /\ [][NextScroll]_vars

\* ================================================================ claims

\* the slots that hold a task
Live(t) == {i \in Slots : t[i].state # TASK_DEAD}

\* in table t with current_task = cur, a RUNNING slot is cur and there is at most one
RunningIsCurrent(t, cur) ==
    /\ \A i \in Slots : t[i].state = TASK_RUNNING => i = cur
    /\ Cardinality({i \in Slots : t[i].state = TASK_RUNNING}) <= 1

\* C1: in every state between the steps of the tasks, and in the table right
\* after each task_kill and task_create, every slot that is RUNNING is
\* current_task, and at most one slot is RUNNING.
C1_RunningIsCurrent ==
    /\ RunningIsCurrent(tasks, current_task)
    /\ obs.kill.called => RunningIsCurrent(obs.kill.after, obs.kill.cur)
    /\ obs.create.called => RunningIsCurrent(obs.create.after, obs.create.cur)

\* a task runs after a task_kill that succeeded
C1_Witness ==
    /\ obs.kill.called
    /\ obs.kill.ret # 0
    /\ current_task \in Slots
    /\ tasks[current_task].state = TASK_RUNNING

\* the slot that holds a task and comes first in the order a+1, a+2, ... (mod MAX_TASKS)
NextLive(t, a) ==
    CHOOSE b \in Live(t) :
        \A c \in Live(t) : ((b - a - 1) % MAX_TASKS) <= ((c - a - 1) % MAX_TASKS)

\* C2: while no task is created or killed, each schedule() makes current the
\* task that follows the previous one in ascending slot order modulo
\* MAX_TASKS, so the last k invocations made each of the k tasks current once.
C2_RoundRobin ==
    /\ \A p \in 1 .. (Len(sched_log) - 1) : sched_log[p + 1] = NextLive(tasks, sched_log[p])
    /\ Len(sched_log) >= Cardinality(Live(tasks)) =>
          {sched_log[p] : p \in (Len(sched_log) - Cardinality(Live(tasks)) + 1) .. Len(sched_log)}
              = Live(tasks)

\* more schedule invocations than tasks since the table last changed
C2_Witness ==
    /\ Cardinality(Live(tasks)) >= 3
    /\ Len(sched_log) >= 2 * Cardinality(Live(tasks))

\* C3: a task_kill whose id is out of range, names a DEAD slot or is
\* current_task returns 0 and changes nothing of the machine state.
C3_KillRefused ==
    (/\ obs.kill.called
     /\ \/ obs.kill.id \notin Slots
        \/ obs.kill.before[obs.kill.id].state = TASK_DEAD
        \/ obs.kill.id = obs.kill.cur)
    => (obs.kill.ret = 0 /\ obs.kill.changed = {})

\* the shell called task_kill with its own slot
C3_Witness ==
    /\ obs.kill.called
    /\ obs.kill.id = obs.kill.cur
    /\ obs.kill.ret = 0

\* the argument of a kill line: what follows "kill "
KillArg(line) ==
    IF starts_with(line, L_kill_) THEN SubSeq(line, Len(L_kill_) + 1, Len(line)) ELSE << >>

AllDigits(s) == s # << >> /\ \A i \in 1 .. Len(s) : s[i] \in 48 .. 57

\* the decimal value of a string of digits is 8 or more
DecimalAtLeast8(s) == (\E i \in 1 .. (Len(s) - 1) : s[i] # 48) \/ s[Len(s)] >= 56

\* the decimal value of a string of digits whose value is below 8
SmallDecimal(s) == s[Len(s)] - 48

\* C4: `kill <u>` prints "Killed task." only if the decimal value of <u> is a
\* slot in 0 .. 7 that holds a task other than the current one, which is DEAD
\* afterwards; for every digit string with a decimal value of 8 or more the
\* usage line is printed and the table stays as it is.
C4_KillCommand ==
    (obs.op = "shell_line" /\ AllDigits(KillArg(obs.line))) =>
        /\ obs.out = S_killed =>
              /\ ~DecimalAtLeast8(KillArg(obs.line))
              /\ obs.kill.before[SmallDecimal(KillArg(obs.line))].state # TASK_DEAD
              /\ obs.kill.cur # SmallDecimal(KillArg(obs.line))
              /\ obs.kill.after[SmallDecimal(KillArg(obs.line))].state = TASK_DEAD
        /\ DecimalAtLeast8(KillArg(obs.line)) =>
              /\ obs.out = S_usage
              /\ obs.kill.called => obs.kill.after = obs.kill.before

\* C5: a task_create with no DEAD slot returns -1 and changes nothing; no more
\* than MAX_TASKS tasks are live; after nine `spawn hb0` commands from boot 8
\* tasks are live and the ninth has printed "No free task slots.".
C5_SlotsFull ==
    /\ Cardinality(Live(tasks)) <= MAX_TASKS
    /\ (obs.create.called /\ Live(obs.create.before) = Slots) =>
          /\ obs.create.ret = -1
          /\ obs.create.after = obs.create.before
          /\ obs.create.changed = {}
    /\ ncmd = 9 => Cardinality(Live(tasks)) = 8
    /\ (ncmd = 9 /\ obs.op = "shell_line") => obs.out = S_noslots

\* the ninth spawn command has run and its task_create returned -1
C5_Witness ==
    /\ ncmd = 9
    /\ obs.op = "shell_line"
    /\ obs.create.called
    /\ obs.create.ret = -1
    /\ Live(obs.create.before) = Slots

\* task_kill succeeded on the slot the last task_create allocated, with no
\* other change of the table in between
KillOfCreated ==
    /\ obs.kill.called
    /\ obs.kill.ret # 0
    /\ obs.kill_image.slot = obs.kill.id

\* C6 as claimed: after task_create allocated slot i and task_kill(i)
\* succeeded, the table is the one before the create in state, esp, name and
\* entry of all slots.
C6_TableRestored == KillOfCreated => obs.kill.after = obs.kill_image.tasks

\* C6 amended: after task_create allocated slot i and task_kill(i) succeeded,
\* with schedule invocations in between, every slot has the state, name and
\* entry it had before the create, and slot i and the DEAD slots have the esp
\* they had; the esp of the other tasks is the one schedule saved last.
C6_SlotRestored ==
    KillOfCreated =>
        \A j \in Slots :
            /\ obs.kill.after[j].state = obs.kill_image.tasks[j].state
            /\ obs.kill.after[j].name = obs.kill_image.tasks[j].name
            /\ obs.kill.after[j].entry = obs.kill_image.tasks[j].entry
            /\ (j = obs.kill.id \/ obs.kill_image.tasks[j].state = TASK_DEAD) =>
                  obs.kill.after[j].esp = obs.kill_image.tasks[j].esp

\* slot 3, DEAD after boot, was created, ran and yielded, and was killed
C6_Witness ==
    /\ KillOfCreated
    /\ obs.kill.id = 3
    /\ obs.kill_ran
    /\ obs.kill.before[3].esp # stack_top(3) - CTX_FRAME

\* C7: a task_kill that succeeds on a heartbeat clears the overlay row on
\* which the text of this instance is displayed and changes no other overlay
\* row; on a task of another name it changes no overlay cell.
C7_KillClearsOwnRow ==
    (obs.kill.called /\ obs.kill.ret # 0) =>
        IF \/ streq(obs.kill.before[obs.kill.id].name, N_heartbeat0)
           \/ streq(obs.kill.before[obs.kill.id].name, N_heartbeat1)
        THEN /\ obs.kill_owned >= 0 => obs.kill_owned \notin obs.kill_shown
             /\ obs.kill_band \subseteq {obs.kill_owned}
        ELSE obs.kill_band = {}

\* C8: what the shell writes to the text area (prompt, line editor, command
\* output, with their newlines and scrolls) changes no cell of the overlay
\* bands or of the HUD rectangle, and a heartbeat changes only cells of its
\* own overlay band.
C8_RegionsDisjoint ==
    /\ obs.text_band = {}
    /\ obs.text_hud = {}
    /\ obs.hb_outside = {}

\* C9: in read_line with out_cap >= 2, after every event cur <= len <=
\* out_cap - 1 and out[len] = 0, and when ENTER has ended the line
\* out[0 .. len) holds only bytes in 32 .. 126.
C9_EditorBounds ==
    /\ rl.cap >= 2
    /\ rl.cur <= rl.len
    /\ rl.len <= rl.cap - 1
    /\ rl.out[rl.len + 1] = 0
    /\ pc[0] = "line_done" => \A i \in 1 .. rl.len : rl.out[i] \in 32 .. 126

\* ENTER ended a line that fills the largest buffer
C9_Witness ==
    /\ pc[0] = "line_done"
    /\ obs.ev.type = KEY_ENTER
    /\ rl.cap = MaxCap
    /\ rl.len = rl.cap - 1

\* the editor r has the length, the cursor and the bytes out[0 .. len] of u
Restored(r, u) ==
    /\ r.len = u.len
    /\ r.cur = u.cur
    /\ SubSeq(r.out, 1, u.len + 1) = SubSeq(u.out, 1, u.len + 1)

\* the last two events were a CHAR given with cur = len and a BACKSPACE
CharThenBackspace ==
    /\ obs.op = "edit_key"
    /\ obs.ev.type = KEY_BACKSPACE
    /\ obs.undo.set

\* C10 as claimed: CHAR(c) given with cur = len and then BACKSPACE leave
\* len, cur and out[0 .. len] as they were, whatever len is.
C10_CharBackspace == CharThenBackspace => Restored(rl, obs.undo.rl)

\* C10 amended: CHAR(c) given with cur = len and len + 1 < out_cap and then
\* BACKSPACE leave len, cur and out[0 .. len] as they were.
C10_CharBackspaceRoom ==
    (CharThenBackspace /\ obs.undo.rl.len + 1 < obs.undo.rl.cap) => Restored(rl, obs.undo.rl)

\* a CHAR was inserted at the end of a buffer that held a byte, then BACKSPACE
C10_Witness ==
    /\ CharThenBackspace
    /\ obs.undo.rl.len >= 1
    /\ obs.undo.rl.len + 1 < obs.undo.rl.cap

\* C11: a CHAR(c) given to read_line with len + 1 < out_cap puts c at out[cur],
\* leaves out[0 .. cur) as it was, moves what was out[cur .. len) one place to
\* the right in its order and adds one to cur and to len; the keys a, b, c, d,
\* e, f, LEFT, LEFT, X, ENTER give the line abcdXef.
C11_CharInserts ==
    /\ \A i \in 1 .. Len(obs.keys) :
          (/\ obs.keys[i].type = KEY_CHAR
           /\ obs.steps[i].len + 1 < obs.steps[i].cap) =>
              /\ obs.steps[i + 1].out[obs.steps[i].cur + 1] = obs.keys[i].ch
              /\ SubSeq(obs.steps[i + 1].out, 1, obs.steps[i].cur)
                     = SubSeq(obs.steps[i].out, 1, obs.steps[i].cur)
              /\ SubSeq(obs.steps[i + 1].out, obs.steps[i].cur + 2, obs.steps[i].len + 1)
                     = SubSeq(obs.steps[i].out, obs.steps[i].cur + 1, obs.steps[i].len)
              /\ obs.steps[i + 1].cur = obs.steps[i].cur + 1
              /\ obs.steps[i + 1].len = obs.steps[i].len + 1
    /\ obs.keys = EditScript => obs.line = <<97, 98, 99, 100, 88, 101, 102>>

\* the shell read the keys a, b, c, d, e, f, LEFT, LEFT, X, ENTER: X was given
\* with cur = 4 and len = 6
C11_Witness ==
    /\ obs.op = "shell_line"
    /\ obs.keys = EditScript
    /\ Len(obs.steps) = Len(EditScript) + 1
    /\ obs.steps[Len(EditScript)].cur = 4
    /\ obs.steps[Len(EditScript)].len = 6
    /\ rl.len = 7

\* after boot, `spawn hb0` twice and `kill 3`: heartbeat0 in slots 1 and 4,
\* heartbeat1 in slot 2, slot 3 DEAD
KilledThree ==
    /\ tasks[1].state # TASK_DEAD /\ streq(tasks[1].name, N_heartbeat0)
    /\ tasks[2].state # TASK_DEAD /\ streq(tasks[2].name, N_heartbeat1)
    /\ tasks[3].state = TASK_DEAD
    /\ tasks[4].state # TASK_DEAD /\ streq(tasks[4].name, N_heartbeat0)

\* the step was the `kill 3` of this scenario; the step was a tick of slot 4 after it
KillThreeStep == KilledThree /\ obs.op = "shell_line" /\ obs.kill.called /\ obs.kill.ret # 0

TickOfFour == KilledThree /\ obs.op = "hb_tick" /\ obs.me = 4

\* C12 as claimed: `kill 3` clears overlay row 0, and on its next tick the
\* heartbeat0 in slot 4 has instance index 0 and writes to overlay row 0.
C12_KillThreeRowZero ==
    /\ KillThreeStep => (obs.kill_band \subseteq {HB0_ROW_BASE} /\ HB0_ROW_BASE \notin obs.kill_shown)
    /\ TickOfFour =>
          /\ hb_row[4] = HB0_ROW_BASE
          /\ ShowsHeartbeat(vga, HB0_ROW_BASE, N_heartbeat0, 4)

\* C12 amended: `kill 3` clears overlay row 1 (slot 3 is the second heartbeat0,
\* after the one in slot 1) and no other overlay row, and on each tick after it
\* the heartbeat0 in slot 4 has instance index 1 and writes to overlay row 1.
C12_KillThreeRowOne ==
    /\ KillThreeStep =>
          (obs.kill_band \subseteq {HB0_ROW_BASE + 1} /\ (HB0_ROW_BASE + 1) \notin obs.kill_shown)
    /\ TickOfFour =>
          /\ hb_row[4] = HB0_ROW_BASE + 1
          /\ ShowsHeartbeat(vga, HB0_ROW_BASE + 1, N_heartbeat0, 4)
          /\ ~ShowsHeartbeat(vga, HB0_ROW_BASE, N_heartbeat0, 4)

\* the heartbeat0 in slot 4 ticked after `kill 3`, having ticked before it
C12_Witness ==
    /\ TickOfFour
    /\ hb_n[4] = 0
    /\ hb_row[4] = HB0_ROW_BASE + 1

\* the cells of `row` from column col show the bytes of s
RowShows(v, row, col, s) == \A k \in 1 .. Len(s) : v[row + 1][col + k] = vga_entry(s[k])

\* the number of tasks in the slots below i
Rank(t, i) == Cardinality({j \in Live(t) : j < i})

\* the last step was the command ps
PsStep == obs.op = "shell_line" /\ obs.line = L_ps

\* the row of the k-th task line of the ps that just ran (k from 0): the task
\* lines are the rows right above the cursor, also after the text area scrolled
PsRow(k) == term_row - Cardinality(Live(tasks)) + k

\* C13: task_create takes the lowest DEAD slot and returns its index, after
\* any creates and kills; the first two `spawn hb0` after boot get 3 and 4;
\* ps lists the tasks in ascending slot order, one row each with its id and
\* name: after the two spawns shell, heartbeat0, heartbeat1, heartbeat0,
\* heartbeat0.
C13_LowestSlot ==
    /\ (obs.create.called /\ Live(obs.create.before) # Slots) =>
          /\ obs.create.ret \in Slots \ Live(obs.create.before)
          /\ \A j \in Slots \ Live(obs.create.before) : obs.create.ret <= j
          /\ obs.create.after[obs.create.ret].state = TASK_READY
          /\ \A j \in Slots \ {obs.create.ret} : obs.create.after[j] = obs.create.before[j]
    /\ (obs.create.called /\ ncmd = 1) => obs.create.ret = 3
    /\ (obs.create.called /\ ncmd = 2 /\ Live(obs.create.before) = 0 .. 3) => obs.create.ret = 4
    /\ PsStep =>
          /\ term_row = IF obs.out_row + 1 + Cardinality(Live(tasks)) < TERM_HEIGHT
                        THEN obs.out_row + 1 + Cardinality(Live(tasks))
                        ELSE TERM_HEIGHT - 1
          /\ \A i \in Live(tasks) :
                /\ RowShows(vga, PsRow(Rank(tasks, i)), 0, <<48 + i>>)
                /\ RowShows(vga, PsRow(Rank(tasks, i)), 9, tasks[i].name \o <<32>>)
    /\ (PsStep /\ Live(tasks) = 0 .. 4 /\ ncmd = 3) =>
          /\ RowShows(vga, PsRow(0), 9, N_shell \o <<32>>)
          /\ RowShows(vga, PsRow(1), 9, N_heartbeat0 \o <<32>>)
          /\ RowShows(vga, PsRow(2), 9, N_heartbeat1 \o <<32>>)
          /\ RowShows(vga, PsRow(3), 9, N_heartbeat0 \o <<32>>)
          /\ RowShows(vga, PsRow(4), 9, N_heartbeat0 \o <<32>>)

\* ps ran after two `spawn hb0` from boot
C13_Witness ==
    /\ PsStep
    /\ ncmd = 3
    /\ Live(tasks) = 0 .. 4
    /\ RowShows(vga, obs.out_row, 0, SubSeq(S_ps_header, 1, Len(S_ps_header) - 1))

\* the last step read a line: obs.enter is the put_char of the newline of ENTER
EnterStep == obs.op = "shell_line" /\ obs.enter.set

\* the put_char of a newline from `before` to `after`: on the last row of the
\* text area the rows 1 .. 23 move up by one and row 23 is cleared, elsewhere
\* the cursor moves to the next row; the rest of the line is blank, the cursor
\* is in column 0, and row 24 is as it was
NewlineDone(before, after) ==
    /\ after.col = 0
    /\ after.vga[VGA_HEIGHT] = before.vga[VGA_HEIGHT]
    /\ IF before.row = TERM_HEIGHT - 1
       THEN /\ after.row = TERM_HEIGHT - 1
            /\ \A y \in 1 .. (TERM_HEIGHT - 2) : after.vga[y] = before.vga[y + 1]
            /\ \A x \in 1 .. VGA_WIDTH :
                  after.vga[TERM_HEIGHT - 1][x] =
                      IF x <= before.col THEN before.vga[TERM_HEIGHT][x] ELSE BLANK
            /\ after.vga[TERM_HEIGHT] = BlankRow
       ELSE /\ after.row = before.row + 1
            /\ \A y \in 1 .. TERM_HEIGHT : y # before.row + 1 => after.vga[y] = before.vga[y]
            /\ \A x \in 1 .. VGA_WIDTH :
                  after.vga[before.row + 1][x] =
                      IF x <= before.col THEN before.vga[before.row + 1][x] ELSE BLANK

\* C14 as claimed: a newline on row 23 scrolls and leaves the cursor at
\* (23, 0), row 24 is not written, and in every state between two put_char
\* the logical cursor has row < 24 and col < 80: also the cursor read_line
\* sets for the put_char of the newline of ENTER.
C14_NewlineScrolls ==
    /\ term_row < TERM_HEIGHT
    /\ term_col < VGA_WIDTH
    /\ (VGA_HEIGHT - 1) \notin obs.text_hud
    /\ EnterStep =>
          /\ NewlineDone(obs.enter.before, obs.enter.after)
          /\ obs.enter.before.row < TERM_HEIGHT
          /\ obs.enter.before.col < VGA_WIDTH

\* C14 amended: a newline on row 23 scrolls and leaves the cursor at (23, 0),
\* row 24 is not written, and after every put_char and at every yield the
\* logical cursor has row < 24 and col < 80; the cursor read_line sets for the
\* newline of ENTER has row < 24 and col = input_col + len < input_col + out_cap.
C14_NewlineScrollsAfter ==
    /\ term_row < TERM_HEIGHT
    /\ term_col < VGA_WIDTH
    /\ (VGA_HEIGHT - 1) \notin obs.text_hud
    /\ EnterStep =>
          /\ NewlineDone(obs.enter.before, obs.enter.after)
          /\ obs.enter.after.row < TERM_HEIGHT
          /\ obs.enter.after.col < VGA_WIDTH
          /\ obs.enter.before.row < TERM_HEIGHT
          /\ obs.enter.before.col < rl.input_col + rl.cap

\* ENTER was pressed on row 23 after a line of 78 characters, and the text
\* area scrolled
C14_Witness ==
    /\ EnterStep
    /\ obs.enter.before.row = TERM_HEIGHT - 1
    /\ obs.enter.before.col = VGA_WIDTH
    /\ obs.enter.after.row = TERM_HEIGHT - 1
    /\ obs.enter.after.vga # obs.enter.before.vga

\* ---- C15 ----

\* the step read the line `exit`
ExitStep == obs.op = "shell_line" /\ obs.line = L_exit

\* the three port writes of the shutdown, as <<port, value>>, in order
ShutdownWrites == << <<1540, 8192>>, <<45060, 8192>>, <<16388, 13312>> >>

\* C15: after the shell reads `exit` it writes `Shutting down...` (shown on
\* the row the output started on), the port writes are 0x604 <- 0x2000,
\* 0xB004 <- 0x2000, 0x4004 <- 0x3400 in this order and nothing else, and the
\* machine is halted; no port is written before that; and a halted machine
\* takes no further step: no schedule invocation, no task switch, no change of
\* the task table or of the framebuffer.
C15_ExitHalts ==
    /\ [](/\ ExitStep => /\ halted
                          /\ obs.out = S_shutting
                          /\ obs.out_row < TERM_HEIGHT - 1 =>
                                RowShows(vga, obs.out_row, 0,
                                         SubSeq(S_shutting, 1, Len(S_shutting) - 1))
          /\ halted => ExitStep /\ ports = ShutdownWrites
          /\ ~halted => ports = << >>)
    /\ [][~halted]_vars

\* `exit` was read after another command, with tasks other than the shell
\* alive, and the machine is halted with the text on the display
C15_Witness ==
    /\ ExitStep
    /\ halted
    /\ ncmd >= 2
    /\ \E i \in Slots \ {0} : tasks[i].state = TASK_READY
    /\ ports = ShutdownWrites
    /\ RowShows(vga, obs.out_row, 0, SubSeq(S_shutting, 1, Len(S_shutting) - 1))

\* ---- C16 ----

\* C16: no READY task is passed over by MAX_TASKS calls of schedule(), and
\* the task a schedule() switches to is running after at most MAX_TASKS = 8
\* calls since it was created or ran last, also in the runs that create and
\* kill tasks in between.
C16_ReadyRuns ==
    /\ \A i \in Slots : waited.n[i] < MAX_TASKS
    /\ waited.got <= MAX_TASKS

\* slot 3 was killed and created again while the task of slot 1 waited: the
\* shell's `spawn hb0` filled the table, and the schedule() that ended it was
\* the seventh since slot 1 ran and switched to it
C16_Witness ==
    /\ obs.op = "shell_line"
    /\ obs.create.called /\ obs.create.ret = 3
    /\ \A i \in Slots : tasks[i].state # TASK_DEAD
    /\ current_task = 1
    /\ waited.got = MAX_TASKS - 1
    /\ waited.n[3] = 1

\* the table was full for a whole round: the eighth schedule() since slot 1
\* ran switched to it
C16_FullRound == waited.got = MAX_TASKS /\ current_task = 1

\* ---- C17 ----

\* the schedule() that ended the last step switched to another task
Switched == obs.me \in Slots /\ current_task \in Slots /\ current_task # obs.me

\* the state character the HUD shows on the line of the task of slot i
HudStateCell(v, t, i) == v[hud_start_row + Rank(t, i) + 1 + 1][hud_start_col + 3 + 1]

\* C17: after a schedule() that changes which task is RUNNING, the state
\* character on the HUD line of every task listed (the first hud_h - 1 tasks)
\* is the one of its state in the task table.
C17_HudShowsStates ==
    Switched =>
        \A i \in Live(tasks) :
            Rank(tasks, i) + 1 < hud_h =>
                HudStateCell(vga, tasks, i) = vga_entry(state_char(tasks[i].state))

\* ---- C18 ----

\* the task of slot i is in the loop of task_exit
Exited(i) == pc[i] = "task_exit"

\* C18: a task whose entry returned is in task_exit and yields: it is READY
\* or RUNNING, schedule() switches to it again within MAX_TASKS calls, it
\* stays in task_exit while its slot is not DEAD, its slot becomes DEAD only
\* by a task_kill of it that another task called, and task_create never
\* returns its slot.
C18_ExitedPersists ==
    /\ [](\A i \in Slots :
            Exited(i) => /\ tasks[i].state \in {TASK_READY, TASK_RUNNING}
                         /\ tasks[i].entry = FN_returns
                         /\ waited.n[i] < MAX_TASKS)
    /\ [][\A i \in Slots :
            Exited(i) =>
                /\ tasks'[i].state = TASK_DEAD =>
                       obs'.kill.called /\ obs'.kill.id = i /\ obs'.me # i
                /\ tasks'[i].state # TASK_DEAD => Exited(i)'
                /\ obs'.create.called => obs'.create.ret # i]_vars

\* the table is full with the task in task_exit in slot 3: the fifth
\* `spawn hb0` found no slot, and the schedule() after it had passed the task
\* in task_exit, which has run and yielded in every round
C18_Witness ==
    /\ Exited(3)
    /\ tasks[3].state = TASK_READY
    /\ obs.op = "shell_line"
    /\ obs.create.called /\ obs.create.ret = -1
    /\ \A i \in Slots : tasks[i].state # TASK_DEAD
    /\ ncmd >= 5

\* ---- C19 ----

\* the last step read a byte from the keyboard data port
Polled == obs.kbd.set

\* the last step's keyboard_try_get_key returned true
GotKey == Polled /\ obs.kbd.got = 1

\* what C19 says of one call, for every byte and both values of the two flags
EveryByte ==
    \A sc \in 0 .. 255 : \A e0v \in {0, 1} : \A shiftv \in {0, 1} :
        LET call(k) ==
                /\ k.got = 1 => /\ sc < 128
                                /\ sc # 224
                                /\ ~(e0v = 0 /\ sc \in {42, 54})
                /\ k.got = 1 /\ k.ev.type \in {KEY_LEFT, KEY_RIGHT, KEY_DELETE} => e0v = 1
                /\ k.got = 1 /\ k.ev.type = KEY_CHAR => k.ev.ch \in 32 .. 126
                /\ sc # 224 => k.e0 = 0
        IN  call(keyboard_try_get_key(e0v, shiftv, sc))

\* C19: keyboard_try_get_key returns true only for a press byte (below 0x80)
\* other than 0xE0 and other than a shift code (0x2A, 0x36) without prefix; a
\* LEFT, RIGHT or DELETE event is returned only with the prefix flag set, and
\* only for the byte read right after a byte 0xE0; a CHAR event has ch in
\* 32 .. 126; after a byte other than 0xE0 the prefix flag is clear.  The
\* bytes of the runs are those of ScanBytes; before the first poll the parts
\* that speak of one call are evaluated for all 256 bytes.
C19_KeyEvents ==
    /\ [](/\ GotKey => /\ obs.kbd.sc < 128
                        /\ obs.kbd.sc # 224
                        /\ ~(obs.kbd.e0 = 0 /\ obs.kbd.sc \in {42, 54})
          /\ GotKey /\ obs.kbd.ev.type \in {KEY_LEFT, KEY_RIGHT, KEY_DELETE} =>
                obs.kbd.e0 = 1
          /\ GotKey /\ obs.kbd.ev.type = KEY_CHAR => obs.kbd.ev.ch \in 32 .. 126
          /\ Polled /\ obs.kbd.sc # 224 => e0 = 0
          /\ ~Polled => EveryByte)
    /\ [][GotKey' /\ obs'.kbd.ev.type \in {KEY_LEFT, KEY_RIGHT, KEY_DELETE} =>
            Polled /\ obs.kbd.sc = 224]_vars

\* with shift held, the byte 0x53 read right after 0xE0 gave a DELETE event
\* that removed a character of the line
C19_Witness ==
    /\ GotKey
    /\ obs.kbd.sc = 83
    /\ obs.kbd.e0 = 1
    /\ obs.kbd.ev.type = KEY_DELETE
    /\ shift_down = 1
    /\ e0 = 0
    /\ rl.cur < rl.len

\* ---- C20 ----

\* C20: once schedule() has switched into a task, current_task is a slot
\* whose task is not DEAD; slot 0 always holds the task named shell with the
\* entry task_shell, not DEAD; so some task is always READY or RUNNING.
C20_ShellStays ==
    /\ current_task # -1 => /\ current_task \in Slots
                            /\ tasks[current_task].state # TASK_DEAD
    /\ tasks[0].state # TASK_DEAD
    /\ tasks[0].name = N_shell
    /\ tasks[0].entry = FN_shell
    /\ \E i \in Slots : tasks[i].state \in {TASK_READY, TASK_RUNNING}

\* after `kill 1` the shell entered `kill 0`: task_kill refused it, and the
\* schedule() that followed switched to another task with the shell READY
C20_Witness ==
    /\ obs.op = "shell_line"
    /\ obs.kill.called /\ obs.kill.id = 0 /\ obs.kill.ret = 0
    /\ tasks[1].state = TASK_DEAD
    /\ tasks[0].state = TASK_READY
    /\ current_task \notin {-1, 0}

\* ---- C21 ----

\* the last step called a task_create that allocated a slot
Created == obs.create.called /\ obs.create.ret \in Slots

\* C21: every DEAD slot has esp, name and entry 0 and no task resumes in it;
\* current_task is not a DEAD slot; the task that ran a step was RUNNING, not
\* killed; a task_create allocates a clean DEAD slot and leaves in it the
\* frame it built, esp = stack top of the slot - 40, from which the task
\* starts at task_trampoline, and the schedule() that follows keeps that esp.
C21_DeadSlotsClean ==
    /\ [](/\ \A i \in Slots : tasks[i].state = TASK_DEAD =>
                                    tasks[i] = DeadTask /\ pc[i] = "none"
          /\ current_task # -1 => tasks[current_task].state # TASK_DEAD
          /\ Created =>
                /\ obs.create.before[obs.create.ret] = DeadTask
                /\ obs.create.after[obs.create.ret].esp =
                       stack_top(obs.create.ret) - CTX_FRAME
                /\ tasks[obs.create.ret].esp = stack_top(obs.create.ret) - CTX_FRAME
                /\ pc[obs.create.ret] = "entry")
    /\ [][obs'.me \in Slots => /\ tasks[obs'.me].state = TASK_RUNNING
                                /\ pc[obs'.me] # "none"]_vars

\* `spawn hb0` allocated slot 3 again right after `kill 3` (the line above
\* the prompt reads `Killed task.`): the task that had run in slot 3 was
\* killed, and the new one has the fresh frame and has not run
C21_Witness ==
    /\ Created
    /\ obs.create.ret = 3
    /\ ncmd = 3
    /\ obs.out_row >= 2
    /\ RowShows(vga, obs.out_row - 2, 0, SubSeq(S_killed, 1, Len(S_killed) - 1))
    /\ tasks[3].state = TASK_READY
    /\ tasks[3].esp = stack_top(3) - CTX_FRAME
    /\ tasks[1].esp # stack_top(1) - CTX_FRAME

====
